---- MODULE Spec2Model ----
(***************************************************************************)
(* Model of parglare/grammar.py: programmatic grammar construction         *)
(* (Grammar.from_struct, PGFile / Grammar constructors) and semantic       *)
(* action resolution (Grammar._resolve_actions).                           *)
(*                                                                         *)
(* Python values are modelled as follows.                                  *)
(*   str              TLA+ string (taken apart with Len / SubSeq)          *)
(*   None             the sentinel NoneName for names, and records whose   *)
(*                    cls / kind field is "None"                           *)
(*   dict             a sequence of entries in insertion order             *)
(*   object identity  a symbol reference [k, n]: k = "T" user terminal,    *)
(*                    "G" module-level terminal (EMPTY, EOF, STOP),        *)
(*                    "N" nonterminal made by the caller, "AUG" the        *)
(*                    module-level AUGSYMBOL                               *)
(*   exception        an error record [type, msg, names]                   *)
(***************************************************************************)
EXTENDS Integers, Sequences, FiniteSets, TLC

VARIABLES
    pc,        \* position: "call" before the first operation; "built" or "raised"
               \* after from_struct; "resolved" or "init_error" after
               \* _resolve_actions or a parser constructor that raised; "ready"
               \* after a parser constructor; "constructed", "returned" for
               \* one symbol; "matched" after a recognizer call; "item" or
               \* "len" after a read of a ProductionRHS; "scanned"
               \* after a scanner call; "parsed" or "parse_error" after
               \* parse; "called" after call_actions; "other_built",
               \* "other_raised", "other_resolved", "other_init_error" after
               \* the same operations on a second grammar; "file_resolved"
               \* or "file_raised" after resolve_references
    args,      \* the arguments of the from_struct call
    grammar,   \* the Grammar object returned (NoGrammar if none)
    retname,   \* second element of the tuple from_struct returns
    error,     \* the exception raised by the last operation (NoError if none)
    specials,  \* the module-level terminals EMPTY, EOF, STOP (shared objects)
    overrides, \* action_overrides of the last _resolve_actions call
    nresolve,  \* number of _resolve_actions calls made on the grammar
    resolved,  \* result of resolving one symbol (ResolveSymbol)
    parser,    \* the parser constructed: its kind, options and table
    result     \* what the last recognizer, scanner or parser call returned

vars == <<pc, args, grammar, retname, error, specials, overrides, nresolve, resolved,
          parser, result>>

(***************************************************************************)
(* Basic values                                                            *)
(***************************************************************************)
NoneName == "<None>"

RESERVED_SYMBOL_NAMES == {"EOF", "STOP", "EMPTY"}

NoError == [type |-> "none", msg |-> "", names |-> <<>>]

GrammarError(msg, names) == [type |-> "GrammarError", msg |-> msg, names |-> names]

ParserInitError(msg, names) == [type |-> "ParserInitError", msg |-> msg, names |-> names]

IsError(e) == e.type # "none"

\* '.' in name
HasDot(name) == \E i \in 1..Len(name) : SubSeq(name, i, i) = "."

\* name.split('.', 1)
SplitDot(name) ==
    LET i == CHOOSE j \in 1..Len(name) :
                 /\ SubSeq(name, j, j) = "."
                 /\ \A k \in 1..(j - 1) : SubSeq(name, k, k) # "."
    IN  <<SubSeq(name, 1, i - 1), SubSeq(name, i + 1, Len(name))>>

\* Index of the first TRUE of a sequence of booleans, 0 if none.
FirstTrue(flags) ==
    IF \E i \in 1..Len(flags) : flags[i]
    THEN CHOOSE i \in 1..Len(flags) : flags[i] /\ \A j \in 1..(i - 1) : ~flags[j]
    ELSE 0

\* the keys of a dict given as a sequence of entries [name, ...]
Keys(d) == {d[i].name : i \in 1..Len(d)}

(***************************************************************************)
(* Recognizers                                                             *)
(***************************************************************************)
NoRecognizer == [cls |-> "None", value |-> "", ignore_case |-> FALSE]

StringRecognizer(value) ==
    [cls |-> "StringRecognizer", value |-> value, ignore_case |-> FALSE]

RegExRecognizerObj(regex, ignore_case) ==
    [cls |-> "RegExRecognizer", value |-> regex, ignore_case |-> ignore_case]

\* a callable given by the caller in the `recognizers` dict under `key`
Callable(key) == [cls |-> "callable", value |-> key, ignore_case |-> FALSE]

\* the module-level functions EMPTY_recognizer, EOF_recognizer, STOP_recognizer
ModuleFunction(name) == [cls |-> "function", value |-> name, ignore_case |-> FALSE]

WordChars ==
    {"a", "b", "c", "d", "e", "f", "g", "h", "i", "j", "k", "l", "m", "n", "o",
     "p", "q", "r", "s", "t", "u", "v", "w", "x", "y", "z", "A", "B", "C", "D",
     "E", "F", "G", "H", "I", "J", "K", "L", "M", "N", "O", "P", "Q", "R", "S",
     "T", "U", "V", "W", "X", "Y", "Z", "0", "1", "2", "3", "4", "5", "6", "7",
     "8", "9", "_"}

CharAt(s, i) == SubSeq(s, i, i)

\* The regular expressions of the model: \w+, \w*, and an ordered
\* alternation  l1|l2|...  of literals without metacharacters.
RegexMeta == {"(", ")", "[", "]", "*", "+", "?", "\\", "{", "}"}

RECURSIVE SplitBar(_)
SplitBar(p) ==
    IF \E i \in 1..Len(p) : CharAt(p, i) = "|"
    THEN LET i == CHOOSE j \in 1..Len(p) :
                      /\ CharAt(p, j) = "|"
                      /\ \A k \in 1..(j - 1) : CharAt(p, k) # "|"
         IN  <<SubSeq(p, 1, i - 1)>> \o SplitBar(SubSeq(p, i + 1, Len(p)))
    ELSE <<p>>

\* the pattern  \b<literal>\b  that _fix_keyword_terminals writes
IsWordBounded(p) ==
    /\ Len(p) >= 4
    /\ SubSeq(p, 1, 2) = "\\b"
    /\ SubSeq(p, Len(p) - 1, Len(p)) = "\\b"
    /\ \A i \in 3..(Len(p) - 2) : CharAt(p, i) \notin RegexMeta

\* re.compile: TRUE when the pattern compiles
re_compiles(p) ==
    \/ p \in {"\\w+", "\\w*"}
    \/ IsWordBounded(p)
    \/ \A i \in 1..Len(p) : CharAt(p, i) \notin RegexMeta

\* longest run of word characters of s starting at (0-based) pos
RECURSIVE WordRun(_, _)
WordRun(s, pos) ==
    IF pos < Len(s) /\ CharAt(s, pos + 1) \in WordChars
    THEN CharAt(s, pos + 1) \o WordRun(s, pos + 1)
    ELSE ""

UpperCase == "ABCDEFGHIJKLMNOPQRSTUVWXYZ"

LowerCase == "abcdefghijklmnopqrstuvwxyz"

\* str.lower()
RECURSIVE Lower(_)
Lower(s) ==
    IF s = "" THEN ""
    ELSE LET c == CharAt(s, 1)
             i == FirstTrue([k \in 1..Len(UpperCase) |-> CharAt(UpperCase, k) = c])
         IN  (IF i = 0 THEN c ELSE CharAt(LowerCase, i)) \o Lower(SubSeq(s, 2, Len(s)))

\* the slice s[i:j] for 0 <= i <= j
Slice(s, i, j) ==
    SubSeq(s, (IF i < Len(s) THEN i ELSE Len(s)) + 1, IF j < Len(s) THEN j ELSE Len(s))

\* \b at (0-based) index i of s: a word character on exactly one side
WordBoundary(s, i) ==
    (i > 0 /\ CharAt(s, i) \in WordChars)
        # (i < Len(s) /\ CharAt(s, i + 1) \in WordChars)

\* regex.match(in_str, pos) for the pattern p compiled with or without
\* re.IGNORECASE: [found, group]; group is the text of in_str matched.  A
\* pos past the end counts as the end.  Of an alternation the first
\* alternative, in the order written, that matches at pos is the match.
re_match(p, ignore_case, in_str, pos) ==
    LET fold(x) == IF ignore_case THEN Lower(x) ELSE x
        NoMatch == [found |-> FALSE, group |-> ""]
        at(q) ==
            LET hit(a) == /\ q + Len(a) <= Len(in_str)
                          /\ fold(SubSeq(in_str, q + 1, q + Len(a))) = fold(a)
            IN  IF p \in {"\\w+", "\\w*"}
                THEN LET run == WordRun(in_str, q)
                     IN  [found |-> (p = "\\w*" \/ run # ""), group |-> run]
                ELSE IF IsWordBounded(p)
                THEN LET lit == SubSeq(p, 3, Len(p) - 2)
                     IN  IF /\ hit(lit)
                            /\ WordBoundary(in_str, q)
                            /\ WordBoundary(in_str, q + Len(lit))
                         THEN [found |-> TRUE, group |-> Slice(in_str, q, q + Len(lit))]
                         ELSE NoMatch
                ELSE LET alts == SplitBar(p)
                         i == FirstTrue([k \in 1..Len(alts) |-> hit(alts[k])])
                     IN  IF i = 0 THEN NoMatch
                         ELSE [found |-> TRUE,
                               group |-> Slice(in_str, q, q + Len(alts[i]))]
    IN  at(IF pos > Len(in_str) THEN Len(in_str) ELSE pos)

\* self.re_flags of a RegExRecognizer made without a re_flags argument: the
\* default re.MULTILINE, with re.IGNORECASE when ignore_case
RegExRecognizer_re_flags(rec) ==
    {"MULTILINE"} \cup (IF rec.ignore_case THEN {"IGNORECASE"} ELSE {})

\* variant of RegExRecognizer_call that returns every match, empty or not
RegExRecognizer_call_any(rec, in_str, pos) ==
    LET m == re_match(rec.value, rec.ignore_case, in_str, pos)
    IN  IF m.found THEN m.group ELSE NoneName

\* RegExRecognizer.__call__: the matched text, NoneName when there is no
\* match or the match is empty.
RegExRecognizer_call(rec, in_str, pos) ==
    LET m == re_match(rec.value, rec.ignore_case, in_str, pos)
    IN  IF m.found /\ m.group # "" THEN m.group ELSE NoneName

\* StringRecognizer(value, ignore_case)
StringRecognizerObj(value, ignore_case) ==
    [cls |-> "StringRecognizer", value |-> value, ignore_case |-> ignore_case]

\* StringRecognizer.__call__: self.value when the text at pos equals
\* value_cmp (after lower() when ignore_case), else NoneName
StringRecognizer_call(rec, in_str, pos) ==
    LET value_cmp == IF rec.ignore_case THEN Lower(rec.value) ELSE rec.value
        text == Slice(in_str, pos, pos + Len(rec.value))
    IN  IF rec.ignore_case
        THEN IF Lower(text) = value_cmp THEN rec.value ELSE NoneName
        ELSE IF text = value_cmp THEN rec.value ELSE NoneName

(***************************************************************************)
(* Symbols and productions                                                 *)
(***************************************************************************)
NoAction == [kind |-> "None", id |-> "", len |-> 0]

\* a single callable action
Fn(id) == [kind |-> "fn", id |-> id, len |-> 0]

\* a Python list of n callables
ActionList(n) == [kind |-> "list", id |-> "", len |-> n]

\* Terminal.__init__: a terminal given no recognizer gets
\* StringRecognizer(name)
Terminal(name, recognizer) ==
    [name |-> name,
     recognizer |-> IF recognizer.cls # "None" THEN recognizer
                    ELSE StringRecognizer(name),
     keyword |-> FALSE,
     imported_with |-> NoneName,
     action_name |-> NoneName,
     action |-> NoAction,
     grammar_action |-> NoAction]

\* NonTerminal.__init__; productions is the symbol's own list
NonTerminal(name) ==
    [name |-> name,
     productions |-> <<>>,
     imported_with |-> NoneName,
     action_name |-> NoneName,
     action |-> NoAction,
     grammar_action |-> NoAction]

TRef(name) == [k |-> "T", n |-> name]

GRef(name) == [k |-> "G", n |-> name]

NRef(name) == [k |-> "N", n |-> name]

\* AUGSYMBOL = NonTerminal("S'"), STOP, EMPTY, EOF: module-level objects
AUGSYMBOL == [k |-> "AUG", n |-> "S'"]

STOP == GRef("STOP")

EMPTY == GRef("EMPTY")

EOF == GRef("EOF")

SpecialNames == <<"EMPTY", "EOF", "STOP">>

\* the state of the module-level terminals when the module is imported
SpecialsInit ==
    [n \in {"EMPTY", "EOF", "STOP"} |->
        [Terminal(n, ModuleFunction(n \o "_recognizer")) EXCEPT
            !.grammar_action = IF n = "STOP" THEN NoAction ELSE Fn("pass_none")]]

IsTerminalRef(r) == r.k \in {"T", "G"}

\* Production.__init__ (prod_id, prod_symbol_id are set when enumerated)
Production(symbol, rhs) ==
    [symbol |-> symbol, rhs |-> rhs, prod_id |-> -1, prod_symbol_id |-> -1]

\* GrammarSymbol.fqn; every symbol of the model has imported_with = None
\* except those of SymbolInputs below
Fqn(imported_with, name) ==
    IF imported_with # NoneName THEN imported_with \o "." \o name ELSE name

(***************************************************************************)
(* check_symbol_name, make_terminal                                        *)
(***************************************************************************)
\* variant of check_symbol_name that lets the reserved names through
check_symbol_name_dots_only(name) ==
    IF HasDot(name) THEN GrammarError("Using dot in names is not allowed.", <<>>)
    ELSE NoError

check_symbol_name(name) ==
    IF name \in RESERVED_SYMBOL_NAMES
    THEN GrammarError("Rule name is reserved.", <<name>>)
    ELSE IF HasDot(name)
    THEN GrammarError("Using dot in names is not allowed.", <<>>)
    ELSE NoError

\* t is the terminal specification: a tuple <<kind, value>>
make_terminal(name, t) ==
    LET chk == check_symbol_name(name)
    IN  IF IsError(chk) THEN [err |-> chk, term |-> Terminal(name, NoRecognizer)]
        ELSE IF Len(t) # 2
        THEN [err |-> GrammarError("terminal specification has to be a list or a tuple of two elements", <<name>>),
              term |-> Terminal(name, NoRecognizer)]
        ELSE IF t[1] = "external"
        THEN [err |-> NoError, term |-> Terminal(name, NoRecognizer)]
        ELSE IF t[1] = "string"
        THEN [err |-> NoError, term |-> Terminal(name, StringRecognizer(t[2]))]
        ELSE IF t[1] = "regexp"
        THEN IF re_compiles(t[2])
             THEN [err |-> NoError,
                   term |-> Terminal(name, RegExRecognizerObj(t[2], FALSE))]
             ELSE [err |-> GrammarError("Regex compile error", <<t[2]>>),
                   term |-> Terminal(name, NoRecognizer)]
        ELSE [err |-> GrammarError("unknown recognizer type", <<name, t[1]>>),
              term |-> Terminal(name, NoRecognizer)]

(***************************************************************************)
(* PGFile.collect_and_unify_symbols                                        *)
(*   terminals: the Terminal objects given to the constructor, in order    *)
(*   productions: the Production objects given to the constructor          *)
(* Returns err, the nonterminal objects by name (with their productions    *)
(* lists filled), and symbols_by_name.                                     *)
(***************************************************************************)
NoRef == [k |-> "None", n |-> ""]

\* names of seq[1..i-1]
NamesBefore(seq, i) == {seq[j].name : j \in 1..(i - 1)}

\* variant of terminal_clash that compares names only, not string values
terminal_clash_names_only(terminals, i) ==
    IF terminals[i].name \in NamesBefore(terminals, i)
    THEN GrammarError("Multiple definitions of terminal rule", <<terminals[i].name>>)
    ELSE NoError

\* the error raised for terminal i of the list, if any
terminal_clash(terminals, i) ==
    LET terminal == terminals[i]
        rec == terminal.recognizer
        \* terminals_by_str_rec: the last earlier terminal holding each value
        holders == {j \in 1..(i - 1) :
                       /\ terminals[j].recognizer.cls = "StringRecognizer"
                       /\ terminals[j].recognizer.value = rec.value}
    IN  IF terminal.name \in NamesBefore(terminals, i)
        THEN GrammarError("Multiple definitions of terminal rule", <<terminal.name>>)
        ELSE IF rec.cls = "StringRecognizer" /\ holders # {}
        THEN GrammarError("Terminals match the same string.",
                          <<terminal.name,
                            terminals[CHOOSE j \in holders :
                                          \A h \in holders : h <= j].name>>)
        ELSE NoError

\* names of the left-hand sides in order of first appearance
RECURSIVE LhsOrder(_, _)
LhsOrder(productions, seen) ==
    IF productions = <<>> THEN <<>>
    ELSE LET n == Head(productions).symbol.n
         IN  IF n \in seen THEN LhsOrder(Tail(productions), seen)
             ELSE <<n>> \o LhsOrder(Tail(productions), seen \cup {n})

collect_and_unify_symbols(terminals, productions) ==
    LET tidx == {i \in 1..Len(terminals) : IsError(terminal_clash(terminals, i))}
        tnames == {terminals[i].name : i \in 1..Len(terminals)}
        pidx == {i \in 1..Len(productions) : productions[i].symbol.n \in tnames}
        nt_order == LhsOrder(productions, {})
        nt_names == {nt_order[i] : i \in 1..Len(nt_order)}
        \* new_symbol.productions.append(production)
        nonterminals == [n \in nt_names |->
            [NonTerminal(n) EXCEPT !.productions =
                SelectSeq(productions, LAMBDA p : p.symbol.n = n)]]
        symbols_by_name == [n \in nt_names \cup tnames \cup {"EMPTY", "EOF", "STOP"} |->
            IF n \in {"EMPTY", "EOF", "STOP"} THEN GRef(n)
            ELSE IF n \in tnames THEN TRef(n)
            ELSE NRef(n)]
        err == IF tidx # {}
               THEN terminal_clash(terminals, CHOOSE i \in tidx : \A j \in tidx : i <= j)
               ELSE IF pidx # {}
               THEN GrammarError("Rule already defined as terminal",
                       <<productions[CHOOSE i \in pidx : \A j \in pidx : i <= j].symbol.n>>)
               ELSE NoError
    IN  [err |-> err,
         nt_order |-> nt_order,
         nonterminals |-> nonterminals,
         symbols_by_name |-> symbols_by_name]

(***************************************************************************)
(* Grammar._add_all_symbols_productions                                    *)
(* st = [productions, nt_keys, nt_ref, t_keys]: self.productions, and the  *)
(* dicts self.nonterminals (keys in insertion order, object per key) and   *)
(* self.terminals (keys).  objs: the NonTerminal objects by name.          *)
(***************************************************************************)
SeqToSet(seq) == {seq[i] : i \in 1..Len(seq)}

\* rhs_elem.productions
ProdsOf(ref, objs) ==
    IF ref.k = "N" /\ ref.n \in DOMAIN objs THEN objs[ref.n].productions ELSE <<>>

\* self.nonterminals[key] = ref
PutNonterminal(st, key, ref) ==
    [st EXCEPT !.nt_keys = IF key \in SeqToSet(@) THEN @ ELSE Append(@, key),
               !.nt_ref = (key :> ref) @@ @]

RECURSIVE add_productions(_, _, _)
RECURSIVE add_rhs(_, _, _)
add_rhs(rhs, st, objs) ==
    IF rhs = <<>> THEN st
    ELSE LET rhs_elem == Head(rhs)
         IN  IF IsTerminalRef(rhs_elem)
             THEN add_rhs(Tail(rhs),
                          IF rhs_elem.n \notin SeqToSet(st.t_keys)
                          THEN [st EXCEPT !.t_keys = Append(@, rhs_elem.n)]
                          ELSE st,
                          objs)
             ELSE IF rhs_elem.n \notin SeqToSet(st.nt_keys)
             THEN add_rhs(Tail(rhs),
                          add_productions(ProdsOf(rhs_elem, objs),
                              [st EXCEPT !.productions = @ \o ProdsOf(rhs_elem, objs)],
                              objs),
                          objs)
             ELSE add_rhs(Tail(rhs), st, objs)

add_productions(productions, st, objs) ==
    IF productions = <<>> THEN st
    ELSE LET production == Head(productions)
             symbol == production.symbol
             st1 == IF symbol.n \notin SeqToSet(st.nt_keys)
                    THEN PutNonterminal(st, symbol.n, symbol)
                    ELSE st
         IN  add_productions(Tail(productions), add_rhs(production.rhs, st1, objs), objs)

RECURSIVE RegisterLhs(_, _)
RegisterLhs(productions, st) ==
    IF productions = <<>> THEN st
    ELSE RegisterLhs(Tail(productions),
                     PutNonterminal(st, Head(productions).symbol.n,
                                    Head(productions).symbol))

\* terminals.update([(s.name, s) for s in (EMPTY, EOF, STOP)])
RECURSIVE UpdateKeys(_, _)
UpdateKeys(keys, new) ==
    IF new = <<>> THEN keys
    ELSE UpdateKeys(IF Head(new) \in SeqToSet(keys) THEN keys
                    ELSE Append(keys, Head(new)),
                    Tail(new))

add_all_symbols_productions(productions, t_keys, objs) ==
    LET st0 == RegisterLhs(productions,
                   [productions |-> productions, nt_keys |-> <<>>,
                    nt_ref |-> <<>>, t_keys |-> UpdateKeys(t_keys, SpecialNames)])
    IN  add_productions(productions, st0, objs)

(***************************************************************************)
(* Grammar._enumerate_productions                                          *)
(***************************************************************************)
\* variant of enumerate_productions with one counter for all the symbols
enumerate_productions_one_counter(productions) ==
    [idx \in 1..Len(productions) |->
        [productions[idx] EXCEPT !.prod_id = idx - 1, !.prod_symbol_id = idx - 1]]

enumerate_productions(productions) ==
    [idx \in 1..Len(productions) |->
        [productions[idx] EXCEPT
            !.prod_id = idx - 1,
            !.prod_symbol_id =
                Cardinality({j \in 1..(idx - 1) :
                                productions[j].symbol = productions[idx].symbol})]]

(***************************************************************************)
(* Grammar._fix_keyword_terminals                                          *)
(*   terms: the user's Terminal objects by name (self.terminals without    *)
(*   the module-level ones, which are in sp)                               *)
(***************************************************************************)
\* variant of fix_keyword that rewrites on any match, whole literal or not
fix_keyword_prefix(term, keyword_rec) ==
    IF term.recognizer.cls = "StringRecognizer"
    THEN LET match == RegExRecognizer_call(keyword_rec, term.recognizer.value, 0)
         IN  IF match # NoneName
             THEN [term EXCEPT
                     !.recognizer = RegExRecognizerObj("\\b" \o match \o "\\b",
                                                       term.recognizer.ignore_case),
                     !.keyword = TRUE]
             ELSE term
    ELSE term

\* variant of fix_keyword that rewrites the recognizer and leaves the
\* keyword flag as it was
fix_keyword_unmarked(term, keyword_rec) ==
    IF term.recognizer.cls = "StringRecognizer"
    THEN LET match == RegExRecognizer_call(keyword_rec, term.recognizer.value, 0)
         IN  IF match = term.recognizer.value
             THEN [term EXCEPT
                     !.recognizer = RegExRecognizerObj("\\b" \o match \o "\\b",
                                                       term.recognizer.ignore_case)]
             ELSE term
    ELSE term

\* the body of the loop over self.terminals.values()
fix_keyword(term, keyword_rec) ==
    IF term.recognizer.cls = "StringRecognizer"
    THEN LET match == RegExRecognizer_call(keyword_rec, term.recognizer.value, 0)
         IN  IF match = term.recognizer.value
             THEN [term EXCEPT
                     !.recognizer = RegExRecognizerObj("\\b" \o match \o "\\b",
                                                       term.recognizer.ignore_case),
                     !.keyword = TRUE]
             ELSE term
    ELSE term

fix_keyword_terminals(terms, sp) ==
    IF "KEYWORD" \notin DOMAIN terms
    THEN [err |-> NoError, terms |-> terms, sp |-> sp]
    ELSE LET keyword_rec == terms["KEYWORD"].recognizer
         IN  IF keyword_rec.cls # "RegExRecognizer"
             THEN [err |-> GrammarError("KEYWORD rule must have a regex recognizer defined.", <<>>),
                   terms |-> terms, sp |-> sp]
             ELSE [err |-> NoError,
                   terms |-> [n \in DOMAIN terms |-> fix_keyword(terms[n], keyword_rec)],
                   sp |-> [n \in DOMAIN sp |-> fix_keyword(sp[n], keyword_rec)]]

(***************************************************************************)
(* Grammar._resolve_actions                                                *)
(*   A grammar file is [actions, imports]: its actions dict and, per       *)
(*   import name, the imported file.  A dict of actions is a function      *)
(*   from names to actions.                                                *)
(***************************************************************************)
BuiltinActions == {"pass_none", "collect", "collect_sep", "optional"}

\* dict.get(key, None)
DictGet(d, key) == IF key \in DOMAIN d THEN d[key] ELSE NoAction

RECURSIVE resolve_action_by_name(_, _)
resolve_action_by_name(file, action_name) ==
    IF action_name \in DOMAIN file.actions THEN file.actions[action_name]
    ELSE IF HasDot(action_name)
    THEN LET parts == SplitDot(action_name)
         IN  IF parts[1] \in DOMAIN file.imports
             THEN resolve_action_by_name(file.imports[parts[1]], parts[2])
             ELSE NoAction
    ELSE NoAction

\* GrammarSymbol.action_fqn
ActionFqn(symbol) ==
    IF symbol.action_name # NoneName
    THEN Fqn(symbol.imported_with, symbol.action_name)
    ELSE NoneName

\* one lookup step: the overrides first, then the grammar file
Lookup(action_overrides, file, key) ==
    LET o == IF DOMAIN action_overrides # {} THEN DictGet(action_overrides, key)
             ELSE NoAction
    IN  IF o.kind # "None" THEN o ELSE resolve_action_by_name(file, key)

\* variant of find_action that tries the action name before the symbol name
\* and nothing else
find_action_name_first(symbol, action_overrides, file) ==
    LET a4 == IF symbol.action_name # NoneName
              THEN Lookup(action_overrides, file, symbol.action_name)
              ELSE NoAction
    IN  IF a4.kind # "None" THEN a4
        ELSE Lookup(action_overrides, file, symbol.name)

\* The action found for one symbol ("None" kind when nothing is found).
\* symbol: [name, imported_with, action_name, ...]
find_action(symbol, action_overrides, file) ==
    LET fqn == Fqn(symbol.imported_with, symbol.name)
        action_fqn == ActionFqn(symbol)
        \* 5. built-in actions module
        step5(action) ==
            IF action.kind = "None" /\ symbol.action_name \in BuiltinActions
            THEN Fn(symbol.action_name)
            ELSE action
        \* 4. Action name
        step4(action) ==
            IF action.kind = "None" /\ symbol.action_name # NoneName
            THEN step5(Lookup(action_overrides, file, symbol.action_name))
            ELSE action
        \* 3. Symbol name
        step3(action) ==
            step4(IF action.kind = "None"
                  THEN Lookup(action_overrides, file, symbol.name)
                  ELSE action)
        \* 2. Fully qualified action name
        step2(action) ==
            step3(IF action.kind = "None" /\ action_fqn # NoneName /\ HasDot(action_fqn)
                  THEN Lookup(action_overrides, file, action_fqn)
                  ELSE action)
    \* 1. Resolve by fully qualified symbol name
    IN  step2(IF HasDot(fqn) THEN Lookup(action_overrides, file, fqn) ELSE NoAction)

\* variant of action_checks without the length test
action_checks_no_length(action, is_terminal, nprods, name) ==
    IF action.kind = "list" /\ is_terminal
    THEN ParserInitError("Cannot use a list of actions for terminal", <<name>>)
    ELSE NoError

\* the sanity checks on a found action
action_checks(action, is_terminal, nprods, name) ==
    IF action.kind = "list"
    THEN IF is_terminal
         THEN ParserInitError("Cannot use a list of actions for terminal", <<name>>)
         ELSE IF action.len # nprods
         THEN ParserInitError("Length of list of actions must match the number of productions for non-terminal", <<name>>)
         ELSE NoError
    ELSE NoError

\* variant of resolve_symbol that leaves symbol.action alone when no action
\* is found
resolve_symbol_keeping(symbol, is_terminal, nprods, action_overrides, file, fail_on_no_resolve) ==
    LET rest(action) ==
            IF symbol.action_name # NoneName /\ action.kind = "None" /\ fail_on_no_resolve
            THEN [err |-> ParserInitError("Action given for rule doesn't exists",
                                          <<symbol.action_name, symbol.name>>),
                  assigned |-> FALSE, action |-> symbol.action]
            ELSE IF action.kind # "None"
            THEN [err |-> action_checks(action, is_terminal, nprods, symbol.name),
                  assigned |-> TRUE, action |-> action]
            ELSE [err |-> NoError, assigned |-> TRUE, action |-> symbol.action]
    IN  rest(find_action(symbol, action_overrides, file))

\* The loop body for one symbol: [err, assigned, action]; assigned tells
\* whether symbol.action was set before the body ended.
resolve_symbol(symbol, is_terminal, nprods, action_overrides, file, fail_on_no_resolve) ==
    LET rest(action) ==
            IF symbol.action_name # NoneName /\ action.kind = "None" /\ fail_on_no_resolve
            THEN [err |-> ParserInitError("Action given for rule doesn't exists",
                                          <<symbol.action_name, symbol.name>>),
                  assigned |-> FALSE, action |-> symbol.action]
            ELSE IF action.kind # "None"
            THEN [err |-> action_checks(action, is_terminal, nprods, symbol.name),
                  assigned |-> TRUE, action |-> action]
            ELSE [err |-> NoError, assigned |-> TRUE, action |-> symbol.grammar_action]
    IN  rest(find_action(symbol, action_overrides, file))

\* Grammar.__iter__: the nonterminals, then the terminals, without
\* AUGSYMBOL and STOP
GrammarIter(g) ==
    LET nts == [i \in 1..Len(g.nt_keys) |-> g.nt_ref[g.nt_keys[i]]]
        ts == [i \in 1..Len(g.t_keys) |->
                  IF g.t_keys[i] \in DOMAIN g.terms THEN TRef(g.t_keys[i])
                  ELSE GRef(g.t_keys[i])]
    IN  SelectSeq(nts \o ts, LAMBDA s : s # AUGSYMBOL /\ s # STOP)

\* the object a reference denotes
SymbolOf(g, sp, ref) ==
    IF ref.k = "T" THEN g.terms[ref.n]
    ELSE IF ref.k = "G" THEN sp[ref.n]
    ELSE g.nts[ref.n]

NProds(g, ref) == IF ref.k = "N" THEN Len(g.nts[ref.n].productions) ELSE 0

resolve_actions(g, sp, action_overrides, fail_on_no_resolve) ==
    LET body(ref) == resolve_symbol(SymbolOf(g, sp, ref), IsTerminalRef(ref),
                                    NProds(g, ref), action_overrides,
                                    [actions |-> g.actions, imports |-> g.imports],
                                    fail_on_no_resolve)
        raises(r) == IsError(r.err)
        \* the state after the loop stopped at index stop of order (past the
        \* end when no body raised); results[i] is the outcome of body i
        store(order, results, stop) ==
            LET done(ref) == \E i \in 1..Len(order) :
                                /\ order[i] = ref
                                /\ (i < stop \/ (i = stop /\ results[i].assigned))
                new(ref) == results[CHOOSE i \in 1..Len(order) : order[i] = ref].action
                upd(ref, obj) == IF done(ref) THEN [obj EXCEPT !.action = new(ref)]
                                 ELSE obj
            IN  [err |-> IF stop > Len(order) THEN NoError ELSE results[stop].err,
                 g |-> [g EXCEPT
                          !.terms = [n \in DOMAIN g.terms |-> upd(TRef(n), g.terms[n])],
                          !.nts = [n \in DOMAIN g.nts |-> upd(NRef(n), g.nts[n])]],
                 sp |-> [n \in DOMAIN sp |-> upd(GRef(n), sp[n])]]
        stopAt(raised) == IF raised = 0 THEN Len(GrammarIter(g)) + 1 ELSE raised
        loop(order, results) ==
            store(order, results,
                  stopAt(FirstTrue([k \in 1..Len(results) |-> raises(results[k])])))
        iterate(order) == loop(order, [i \in 1..Len(order) |-> body(order[i])])
    IN  iterate(GrammarIter(g))

(***************************************************************************)
(* Grammar._connect_override_recognizers                                   *)
(*   recognizers: the keys of the `recognizers` dict in insertion order;   *)
(*   the callable under key k is Callable(k)                               *)
(***************************************************************************)
\* PGFile.resolve_symbol_by_name: [err, ref] (NoRef for None); a dotted name
\* is looked up in the imported file
RECURSIVE resolve_symbol_by_name(_, _)
resolve_symbol_by_name(g, symbol_name) ==
    IF HasDot(symbol_name)
    THEN LET parts == SplitDot(symbol_name)
         IN  IF parts[1] \notin DOMAIN g.imports
             THEN [err |-> GrammarError("Unexisting module in reference",
                                        <<parts[1], symbol_name>>),
                   ref |-> NoRef]
             ELSE resolve_symbol_by_name(g.imports[parts[1]], parts[2])
    ELSE [err |-> NoError,
          ref |-> IF symbol_name \in DOMAIN g.symbols_by_name
                  THEN g.symbols_by_name[symbol_name] ELSE NoRef]

\* variant of unused_recognizer without the nonterminal test
unused_recognizer_unknown_only(g, recognizer_name) ==
    LET r == resolve_symbol_by_name(g, recognizer_name)
    IN  IF IsError(r.err) THEN r.err
        ELSE IF r.ref = NoRef
        THEN GrammarError("Recognizer given for unknown terminal", <<recognizer_name>>)
        ELSE NoError

\* the check of one key of self.recognizers
unused_recognizer(g, recognizer_name) ==
    LET r == resolve_symbol_by_name(g, recognizer_name)
    IN  IF IsError(r.err) THEN r.err
        ELSE IF r.ref = NoRef
        THEN GrammarError("Recognizer given for unknown terminal", <<recognizer_name>>)
        ELSE IF ~IsTerminalRef(r.ref)
        THEN GrammarError("Recognizer given for non-terminal", <<recognizer_name>>)
        ELSE NoError

\* the recognizer a terminal has after the first loop reached it
override_recognizer(term, recognizers) ==
    IF recognizers # <<>> /\ Fqn(term.imported_with, term.name) \in SeqToSet(recognizers)
    THEN Callable(Fqn(term.imported_with, term.name))
    ELSE term.recognizer

connect_override_recognizers(g, sp) ==
    LET recognizers == g.recognizers
        termAt(i) == IF g.t_keys[i] \in DOMAIN g.terms THEN g.terms[g.t_keys[i]]
                     ELSE sp[g.t_keys[i]]
        missing(i) == override_recognizer(termAt(i), recognizers).cls = "None"
        unused(name) == IsError(unused_recognizer(g, name))
        \* the error of the second loop, stopped at key i (0: not stopped)
        unusedError(i) == IF i = 0 THEN NoError
                          ELSE unused_recognizer(g, recognizers[i])
        \* the state after the first loop stopped at index stop of the
        \* terminals (past the end when every terminal has a recognizer)
        rest(stop) ==
            LET reached(n) == \E i \in 1..(stop - 1) : g.t_keys[i] = n
                upd(t) == IF reached(t.name)
                          THEN [t EXCEPT !.recognizer = override_recognizer(t, recognizers)]
                          ELSE t
            IN  [err |-> IF stop <= Len(g.t_keys)
                         THEN IF recognizers = <<>>
                              THEN GrammarError("Terminal has no recognizer defined and no recognizers are given during grammar construction.",
                                                <<termAt(stop).name>>)
                              ELSE GrammarError("Terminal has no recognizer defined.",
                                                <<termAt(stop).name>>)
                         ELSE unusedError(FirstTrue([k \in 1..Len(recognizers) |->
                                                        unused(recognizers[k])])),
                 g |-> [g EXCEPT !.terms = [n \in DOMAIN g.terms |-> upd(g.terms[n])]],
                 sp |-> [n \in DOMAIN sp |-> upd(sp[n])]]
    IN  rest(IF \E i \in 1..Len(g.t_keys) : missing(i)
             THEN CHOOSE i \in 1..Len(g.t_keys) :
                      missing(i) /\ \A j \in 1..(i - 1) : ~missing(j)
             ELSE Len(g.t_keys) + 1)

(***************************************************************************)
(* Grammar.__init__ (with PGFile.__init__) for a grammar without file and  *)
(* imports, given the start symbol as an object                            *)
(***************************************************************************)
NoGrammar ==
    [productions |-> <<>>, t_keys |-> <<>>, terms |-> <<>>, nt_keys |-> <<>>,
     nt_ref |-> <<>>, nts |-> <<>>, symbols_by_name |-> <<>>,
     recognizers |-> <<>>, actions |-> <<>>, imports |-> <<>>,
     start_symbol |-> NoRef]

\* Grammar._init_grammar
init_grammar(g0, sp) ==
    LET \* self._connect_override_recognizers()
        connect(ra) ==
            IF IsError(ra.err) THEN [err |-> ra.err, g |-> ra.g, sp |-> ra.sp]
            ELSE connect_override_recognizers(ra.g, ra.sp)
        \* self._resolve_actions()
        resolve(g1, kw) ==
            IF IsError(kw.err) THEN [err |-> kw.err, g |-> g1, sp |-> sp]
            ELSE connect(resolve_actions([g1 EXCEPT !.terms = kw.terms], kw.sp,
                                         <<>>, FALSE))
        \* self._fix_keyword_terminals()
        keywords(g1) == resolve(g1, fix_keyword_terminals(g1.terms, sp))
        \* self._enumerate_productions()
        enumerate(st) ==
            keywords([g0 EXCEPT !.productions = enumerate_productions(st.productions),
                                !.nt_keys = st.nt_keys,
                                !.nt_ref = st.nt_ref,
                                !.t_keys = st.t_keys])
    \* self.productions.insert(0, ...); self._add_all_symbols_productions()
    IN  enumerate(add_all_symbols_productions(
                      <<Production(AUGSYMBOL, <<g0.start_symbol, STOP>>)>> \o g0.productions,
                      g0.t_keys, g0.nts))

Grammar_init(productions, terminals, start_symbol, recognizers, sp) ==
    LET rest(cu) ==
            IF IsError(cu.err) THEN [err |-> cu.err, g |-> NoGrammar, sp |-> sp]
            ELSE init_grammar(
                     [productions |-> productions,
                      t_keys |-> [i \in 1..Len(terminals) |-> terminals[i].name],
                      terms |-> [n \in {terminals[i].name : i \in 1..Len(terminals)} |->
                                    terminals[CHOOSE i \in 1..Len(terminals) :
                                                  terminals[i].name = n]],
                      nt_keys |-> cu.nt_order,
                      nt_ref |-> [n \in DOMAIN cu.nonterminals |-> NRef(n)],
                      nts |-> cu.nonterminals,
                      symbols_by_name |-> cu.symbols_by_name,
                      recognizers |-> recognizers,
                      actions |-> <<>>,
                      imports |-> <<>>,
                      start_symbol |-> start_symbol],
                     sp)
    IN  rest(collect_and_unify_symbols(terminals, productions))

(***************************************************************************)
(* Grammar.from_struct                                                     *)
(*   a = [productions_dict, terminals_dict, start, recognizers]            *)
(*   productions_dict: entries [name, alts], alts a sequence of sequences  *)
(*   of names; terminals_dict: entries [name, spec]                        *)
(* Returns [err, g, name, sp]: the exception raised or the returned pair,  *)
(* and the module-level terminals afterwards.                              *)
(***************************************************************************)
meta_start_production_name == "__start"

RECURSIVE Flatten(_)
Flatten(seqs) == IF seqs = <<>> THEN <<>> ELSE Head(seqs) \o Flatten(Tail(seqs))

\* get_symbol of from_struct
get_symbol(tnames, pnames, name) ==
    IF name \in tnames THEN TRef(name)
    ELSE IF name \in pnames THEN NRef(name)
    ELSE NoRef

\* variant of entry_error that lets undefined references through
entry_error_no_reference_check(tnames, pnames, e) == check_symbol_name(e.name)

\* the error raised while the productions of one entry are built
entry_error(tnames, pnames, e) ==
    LET chk == check_symbol_name(e.name)
        refs == Flatten(e.alts)
        undefined(n) == get_symbol(tnames, pnames, n) = NoRef
        i == FirstTrue([k \in 1..Len(refs) |-> undefined(refs[k])])
    IN  IF IsError(chk) THEN chk
        ELSE IF i # 0
        THEN GrammarError("reference to undefined symbol", <<e.name, refs[i]>>)
        ELSE NoError

entry_productions(tnames, pnames, e) ==
    [i \in 1..Len(e.alts) |->
        Production(NRef(e.name),
                   [j \in 1..Len(e.alts[i]) |-> get_symbol(tnames, pnames, e.alts[i][j])])]

\* variant of meta_start_rhs without the end of input
meta_start_rhs_open(start_symbol) == <<start_symbol>>

\* ProductionRHS([get_symbol(start), EOF])
meta_start_rhs(start_symbol) == <<start_symbol, EOF>>

\* variant of start_production_first that appends
start_production_last(productions, start_production) ==
    productions \o <<start_production>>

\* productions.insert(0, ...)
start_production_first(productions, start_production) ==
    <<start_production>> \o productions

\* meta_start_production_name in non_terminals or ... in terminals
meta_start_declared(tnames, pnames) ==
    meta_start_production_name \in pnames \/ meta_start_production_name \in tnames

\* for name in productions_dict.keys(): if name in terminals
production_is_terminal(tnames, name) == name \in tnames

\* get_symbol(start) is None
start_undefined(tnames, pnames, start) == get_symbol(tnames, pnames, start) = NoRef

from_struct(a, sp) ==
    LET td == a.terminals_dict
        pd == a.productions_dict
        mt(i) == make_terminal(td[i].name, td[i].spec)
        tbad == {i \in 1..Len(td) : IsError(mt(i).err)}
        terminals == [i \in 1..Len(td) |-> mt(i).term]
        tnames == Keys(td)
        pnames == Keys(pd)
        clash == {i \in 1..Len(pd) : production_is_terminal(tnames, pd[i].name)}
        ebad == {i \in 1..Len(pd) : IsError(entry_error(tnames, pnames, pd[i]))}
        productions == Flatten([i \in 1..Len(pd) |-> entry_productions(tnames, pnames, pd[i])])
        Min(S) == CHOOSE i \in S : \A j \in S : i <= j
        fail(e) == [err |-> e, g |-> NoGrammar, name |-> NoneName, sp |-> sp]
        \* return Grammar(...), meta_start_production_name
        return(built) ==
            IF IsError(built.err)
            THEN [err |-> built.err, g |-> NoGrammar, name |-> NoneName, sp |-> built.sp]
            ELSE [err |-> NoError, g |-> built.g, name |-> meta_start_production_name,
                  sp |-> built.sp]
    IN  IF tbad # {} THEN fail(mt(Min(tbad)).err)
        ELSE IF clash # {}
        THEN fail(GrammarError("production is already defined (as a terminal)",
                               <<pd[Min(clash)].name>>))
        ELSE IF ebad # {} THEN fail(entry_error(tnames, pnames, pd[Min(ebad)]))
        ELSE IF start_undefined(tnames, pnames, a.start)
        THEN fail(GrammarError("Undefined start symbol", <<a.start>>))
        ELSE IF meta_start_declared(tnames, pnames)
        THEN fail(GrammarError("symbol name is reserved", <<meta_start_production_name>>))
        ELSE return(Grammar_init(
                        start_production_first(productions,
                            Production(NRef(meta_start_production_name),
                                       meta_start_rhs(get_symbol(tnames, pnames,
                                                                 a.start)))),
                        terminals,
                        NRef(meta_start_production_name),
                        a.recognizers,
                        sp))

(***************************************************************************)
(* The calls                                                               *)
(***************************************************************************)
MaxTerms == 1

MaxProds == 2

MaxTermsT == 3

MaxRecs == 2

SeqsUpTo(S, n) == UNION {[1..k -> S] : k \in 0..n}

\* dicts: sequences of entries with distinct keys
Dicts(entries, n) ==
    {d \in SeqsUpTo(entries, n) : \A i, j \in 1..Len(d) : d[i].name = d[j].name => i = j}

\* sequences without repetition
DistinctSeqs(S, n) ==
    {q \in SeqsUpTo(S, n) : \A i, j \in 1..Len(q) : q[i] = q[j] => i = j}

TerminalNames == {"a", "EOF", "STOP", "EMPTY", "__start", "S'"}

\* the lists of alternatives: none; a; S | a S
AltChoices == {<<>>, <<<<"a">>>>, <<<<"S">>, <<"a", "S">>>>}

TerminalEntries == {[name |-> n, spec |-> <<"string", n>>] : n \in TerminalNames}

\* productions under ordinary names, with every choice of alternatives, and
\* under the reserved names
ProductionEntries ==
    {[name |-> n, alts |-> alts] : n \in {"S", "a", "S'"}, alts \in AltChoices}
    \cup {[name |-> n, alts |-> <<<<"a">>>>] : n \in {"EOF", "STOP", "EMPTY", "__start"}}

\* calls that vary the names and the productions
Calls ==
    {[productions_dict |-> pd, terminals_dict |-> td, start |-> st, recognizers |-> <<>>] :
        pd \in Dicts(ProductionEntries, MaxProds),
        td \in Dicts(TerminalEntries, MaxTerms),
        st \in {"S", "a"}}

\* terminal declarations: string literals, regular expressions (one that
\* does not compile), external terminals, malformed specifications and a
\* dotted name
TerminalEntriesT ==
    {[name |-> "a", spec |-> t] :
        t \in {<<"string", "a">>, <<"string", "for">>, <<"string", "=">>,
               <<"string", "">>, <<"regexp", "\\w+">>, <<"external", "">>,
               <<"string">>, <<"bogus", "a">>}}
    \cup {[name |-> "b", spec |-> t] :
        t \in {<<"string", "a">>, <<"string", "for">>, <<"string", "=">>,
               <<"regexp", "fo|for">>, <<"external", "">>}}
    \cup {[name |-> "KEYWORD", spec |-> t] :
        t \in {<<"regexp", "\\w+">>, <<"regexp", "\\w*">>, <<"regexp", "fo|for">>,
               <<"regexp", "(">>, <<"string", "for">>}}
    \cup {[name |-> "m.x", spec |-> <<"string", "x">>]}

RecognizerKeys == {"a", "S", "EOF", "zz"}

\* calls that vary the terminals and the `recognizers` option, for the
\* grammar S: a;
CallsT ==
    {[productions_dict |-> <<[name |-> "S", alts |-> <<<<"a">>>>]>>,
      terminals_dict |-> td, start |-> "S", recognizers |-> rs] :
        td \in Dicts(TerminalEntriesT, MaxTermsT),
        rs \in DistinctSeqs(RecognizerKeys, MaxRecs)}

\* calls that build the grammars whose actions are resolved
CallsA ==
    {[productions_dict |-> pd, terminals_dict |-> td, start |-> "S", recognizers |-> <<>>] :
        pd \in Dicts({[name |-> n, alts |-> alts] : n \in {"S", "S'"}, alts \in AltChoices},
                   MaxProds),
        td \in {<<>>, <<[name |-> "a", spec |-> <<"string", "a">>]>>}}

MaxOverrides == 1

MaxResolves == 2

OverrideKeys == {"S", "a", "EOF"}

OverrideValues == {Fn("f"), ActionList(1), ActionList(2)}

\* the `actions` dicts given to a parser
OverrideMaps ==
    UNION {[ks -> OverrideValues] : ks \in {k \in SUBSET OverrideKeys : Cardinality(k) <= MaxOverrides}}

NotResolved == [err |-> NoError, assigned |-> FALSE, action |-> NoAction]

\* no parser has been constructed
NoParser == [kind |-> "None"]

InitWith(calls) ==
    /\ pc = "call"
    /\ args \in calls
    /\ grammar = NoGrammar
    /\ retname = NoneName
    /\ error = NoError
    /\ specials = SpecialsInit
    /\ overrides = <<>>
    /\ nresolve = 0
    /\ resolved = NotResolved
    /\ parser = NoParser
    /\ result = NoneName

Init == InitWith(Calls)

InitT == InitWith(CallsT)

InitA == InitWith(CallsA)

\* grammar, name = Grammar.from_struct(**args)
FromStruct ==
    /\ pc = "call"
    /\ \E r \in {from_struct(args, specials)} :
           /\ pc' = IF IsError(r.err) THEN "raised" ELSE "built"
           /\ error' = r.err
           /\ grammar' = r.g
           /\ retname' = r.name
           /\ specials' = r.sp
    /\ UNCHANGED <<args, overrides, nresolve, resolved, parser, result>>

\* grammar._resolve_actions(action_overrides, fail_on_no_resolve), as a
\* parser constructed on the grammar calls it
ResolveActions ==
    /\ pc \in {"built", "resolved", "init_error"}
    /\ nresolve < MaxResolves
    /\ \E action_overrides \in OverrideMaps, fail_on_no_resolve \in BOOLEAN :
          \E r \in {resolve_actions(grammar, specials, action_overrides,
                                    fail_on_no_resolve)} :
              /\ pc' = IF IsError(r.err) THEN "init_error" ELSE "resolved"
              /\ error' = r.err
              /\ grammar' = r.g
              /\ specials' = r.sp
              /\ overrides' = action_overrides
    /\ nresolve' = nresolve + 1
    /\ UNCHANGED <<args, retname, resolved, parser, result>>

Next == FromStruct

NextA == FromStruct \/ ResolveActions

Spec == Init /\ [][Next]_vars

SpecT == InitT /\ [][Next]_vars

SpecA == InitA /\ [][NextA]_vars

(***************************************************************************)
(* Resolution of the action of one symbol, for symbols of any grammar      *)
(* file: with or without imported_with and action_name                     *)
(***************************************************************************)
PrefixKeys == {"A", "m.A", "act", "m.act"}

\* a dict of actions with the given keys; the action under key k is
\* Fn(tag:k)
ActionsDict(tag, keys) == [k \in keys |-> Fn(tag \o ":" \o k)]

SymbolInputs ==
    {[name |-> "A", imported_with |-> iw, action_name |-> an,
      action |-> NoAction, grammar_action |-> ga, keyword |-> FALSE,
      recognizer |-> NoRecognizer, productions |-> <<>>] :
        iw \in {NoneName, "m"},
        an \in {NoneName, "act", "collect"},
        ga \in {NoAction, Fn("grammar_action")}}

FileInputs ==
    {[actions |-> ActionsDict("file", ks), imports |-> im] :
        ks \in SUBSET PrefixKeys,
        im \in {<<>>} \cup {[m \in {"m"} |-> [actions |-> ActionsDict("imported", ks2),
                                             imports |-> <<>>]] :
                               ks2 \in (SUBSET {"A", "act"}) \ {{}}}}

ResolveInputs ==
    {[symbol |-> sy, action_overrides |-> ActionsDict("override", ks), file |-> f,
      fail_on_no_resolve |-> fl] :
        sy \in SymbolInputs, ks \in SUBSET PrefixKeys, f \in FileInputs, fl \in BOOLEAN}

InitR ==
    /\ pc = "call"
    /\ args \in ResolveInputs
    /\ grammar = NoGrammar
    /\ retname = NoneName
    /\ error = NoError
    /\ specials = SpecialsInit
    /\ overrides = <<>>
    /\ nresolve = 0
    /\ resolved = NotResolved
    /\ parser = NoParser
    /\ result = NoneName

\* the body of the loop of _resolve_actions for the symbol args.symbol, as
\* Grammar._init_grammar runs it: self._resolve_actions()
ConstructSymbol ==
    /\ pc = "call"
    /\ resolved' = resolve_symbol(args.symbol, FALSE, 1, <<>>, args.file, FALSE)
    /\ pc' = "constructed"
    /\ UNCHANGED <<args, grammar, retname, error, specials, overrides, nresolve,
                 parser, result>>

\* the same body in a later call made with the user's actions:
\* _resolve_actions(action_overrides, fail_on_no_resolve)
ResolveSymbol ==
    /\ pc = "constructed"
    /\ resolved' = resolve_symbol([args.symbol EXCEPT !.action = resolved.action],
                                  FALSE, 1, args.action_overrides,
                                  args.file, args.fail_on_no_resolve)
    /\ pc' = "returned"
    /\ UNCHANGED <<args, grammar, retname, error, specials, overrides, nresolve,
                 parser, result>>

NextR == ConstructSymbol \/ ResolveSymbol

SpecR == InitR /\ [][NextR]_vars

(***************************************************************************)
(* from_struct called with the options ignore_case and re_flags: they go,  *)
(* within **kwargs, to Grammar.__init__, which takes them as parameters    *)
(* and does not read them                                                  *)
(***************************************************************************)
MaxTermsO == 2

TerminalEntriesO ==
    {[name |-> "a", spec |-> t] :
        t \in {<<"string", "a">>, <<"string", "for">>, <<"regexp", "\\w+">>,
               <<"regexp", "fo|for">>}}
    \cup {[name |-> "b", spec |-> <<"string", "For">>],
          [name |-> "KEYWORD", spec |-> <<"regexp", "\\w+">>]}

ReFlagChoices == {{}, {"MULTILINE"}, {"IGNORECASE"}}

CallsO ==
    {[productions_dict |-> <<[name |-> "S", alts |-> <<<<"a">>>>]>>,
      terminals_dict |-> td, start |-> "S", recognizers |-> <<>>,
      ignore_case |-> ic, re_flags |-> rf] :
        td \in {d \in Dicts(TerminalEntriesO, MaxTermsO) : "a" \in Keys(d)},
        ic \in BOOLEAN, rf \in ReFlagChoices}

InitO == InitWith(CallsO)

SpecO == InitO /\ [][Next]_vars

(***************************************************************************)
(* Calls of the built-in recognizers: recognizer(in_str, pos)              *)
(***************************************************************************)
MaxPos == 3

StringLiterals == {"", "a", "for", "For"}

RegexPatterns == {"\\w+", "\\w*", "fo|for", "a|", "For", "\\bfor\\b"}

InputTexts == {"", "a", "for", "FOR", "fork", "a for"}

BuiltinRecognizers ==
    {StringRecognizerObj(v, ic) : v \in StringLiterals, ic \in BOOLEAN}
        \cup {RegExRecognizerObj(p, ic) : p \in RegexPatterns, ic \in BOOLEAN}

RecognizerCalls ==
    [recognizer : BuiltinRecognizers, in_str : InputTexts, pos : 0..MaxPos]

InitM == InitWith(RecognizerCalls)

\* result = StringRecognizer.__call__(in_str, pos)
CallStringRecognizer ==
    /\ pc = "call"
    /\ args.recognizer.cls = "StringRecognizer"
    /\ result' = StringRecognizer_call(args.recognizer, args.in_str, args.pos)
    /\ pc' = "matched"
    /\ UNCHANGED <<args, grammar, retname, error, specials, overrides, nresolve,
                   resolved, parser>>

\* result = RegExRecognizer.__call__(in_str, pos)
CallRegExRecognizer ==
    /\ pc = "call"
    /\ args.recognizer.cls = "RegExRecognizer"
    /\ result' = RegExRecognizer_call(args.recognizer, args.in_str, args.pos)
    /\ pc' = "matched"
    /\ UNCHANGED <<args, grammar, retname, error, specials, overrides, nresolve,
                   resolved, parser>>

NextM == CallStringRecognizer \/ CallRegExRecognizer

SpecM == InitM /\ [][NextM]_vars

(***************************************************************************)
(* The scanner (specification 4.E): layout skipping, token recognition     *)
(* and lexical disambiguation.  A token is [symbol, value]: the reference  *)
(* of its terminal and the text matched.                                   *)
(***************************************************************************)
\* the `ws` option by default
WS == {" ", "\t", "\n", "\r"}

\* step 1: the position after the layout that starts at pos
RECURSIVE skip_ws(_, _)
skip_ws(in_str, pos) ==
    IF pos < Len(in_str) /\ CharAt(in_str, pos + 1) \in WS
    THEN skip_ws(in_str, pos + 1)
    ELSE pos

Token(symbol, value) == [symbol |-> symbol, value |-> value]

\* what the recognizer of the terminal returns at pos.  EOF matches, with
\* the empty text, at the end of the input; STOP is no match of its own (see
\* scan).  custom is what the user's callable returns.
recognize(g, sp, ref, in_str, pos, custom) ==
    LET rec == SymbolOf(g, sp, ref).recognizer
    IN  IF ref = EOF THEN (IF pos >= Len(in_str) THEN "" ELSE NoneName)
        ELSE IF ref = STOP THEN NoneName
        ELSE IF rec.cls = "StringRecognizer" THEN StringRecognizer_call(rec, in_str, pos)
        ELSE IF rec.cls = "RegExRecognizer" THEN RegExRecognizer_call(rec, in_str, pos)
        ELSE IF rec.cls = "callable" THEN custom
        ELSE NoneName

\* step 3: the tokens of the expected terminals that match at pos
token_recognition(g, sp, expected, in_str, pos, custom) ==
    {Token(ref, recognize(g, sp, ref, in_str, pos, custom)) :
        ref \in {r \in expected : recognize(g, sp, r, in_str, pos, custom) # NoneName}}

\* Terminal.prefer, Terminal.finish and Terminal.dynamic as Terminal.__init__
\* sets them; from_struct builds no terminal with other values
TerminalPrefer(term) == FALSE

TerminalFinish(term) == FALSE

\* a terminal is finish in a state when flagged or the only one expected
IsFinish(g, sp, ref, expected) ==
    TerminalFinish(SymbolOf(g, sp, ref)) \/ expected = {ref}

\* string and keyword terminals are the most specific
IsSpecific(g, sp, ref) ==
    \/ SymbolOf(g, sp, ref).recognizer.cls = "StringRecognizer"
    \/ SymbolOf(g, sp, ref).keyword

MaxLength(tokens) ==
    CHOOSE n \in {Len(t.value) : t \in tokens} : \A t \in tokens : Len(t.value) <= n

\* step 4c
longest_matches(tokens) == {t \in tokens : Len(t.value) = MaxLength(tokens)}

\* step 4b
most_specific(g, sp, tokens) ==
    LET specific == {t \in tokens : IsSpecific(g, sp, t.symbol)}
    IN  IF specific # {} THEN specific ELSE tokens

\* step 4d
preferred(g, sp, tokens) ==
    LET pref == {t \in tokens : TerminalPrefer(SymbolOf(g, sp, t.symbol))}
    IN  IF pref # {} THEN pref ELSE tokens

\* step 4, a to d, of a non-empty set of tokens (e: no terminal is dynamic)
lexical_disambiguation(g, sp, tokens, expected, remaining) ==
    LET finished == {t \in tokens : /\ IsFinish(g, sp, t.symbol, expected)
                                    /\ t.value = remaining}
    IN  IF finished # {} THEN finished
        ELSE preferred(g, sp, longest_matches(most_specific(g, sp, tokens)))

ParseError(position, expected) ==
    [kind |-> "error", type |-> "ParseError", position |-> position,
     expected |-> expected]

DisambiguationError(position, tokens) ==
    [kind |-> "error", type |-> "DisambiguationError", position |-> position,
     candidates |-> tokens]

\* the tokens at pos for a state that expects `expected`: those recognized,
\* and the end marker STOP when it is expected and nothing is recognized
tokens_at(g, sp, expected, in_str, pos, custom) ==
    LET found(tokens) ==
            IF tokens = {} /\ STOP \in expected THEN {Token(STOP, "")} ELSE tokens
    IN  found(token_recognition(g, sp, expected, in_str, pos, custom))

\* the scanner called at a position with the terminals the state expects:
\* the token, with the layout skipped and the position it starts at
scan(g, sp, expected, in_str, position, custom) ==
    LET start == skip_ws(in_str, position)
        layout == Slice(in_str, position, start)
        pick(tokens) ==
            IF tokens = {} THEN ParseError(start, expected)
            ELSE LET left(ts) ==
                         IF Cardinality(ts) > 1 THEN DisambiguationError(start, ts)
                         ELSE [kind |-> "token", token |-> CHOOSE t \in ts : TRUE,
                               position |-> start, layout_content |-> layout]
                 IN  left(lexical_disambiguation(g, sp, tokens, expected,
                                                 Slice(in_str, start, Len(in_str))))
    IN  pick(tokens_at(g, sp, expected, in_str, start, custom))

(***************************************************************************)
(* Scanning with the terminals of a grammar made by from_struct            *)
(***************************************************************************)
MaxTermsS == 3

TerminalEntriesS ==
    {[name |-> "a", spec |-> t] : t \in {<<"string", "for">>, <<"string", "fo">>}}
    \cup {[name |-> "b", spec |-> t] :
             t \in {<<"regexp", "\\w+">>, <<"regexp", "fo|for">>, <<"string", "fork">>,
                    <<"external", "">>}}
    \cup {[name |-> "KEYWORD", spec |-> <<"regexp", "\\w+">>]}

CallsS ==
    {[productions_dict |-> <<[name |-> "S", alts |-> <<<<"a">>>>]>>,
      terminals_dict |-> td, start |-> "S", recognizers |-> rs] :
        td \in {d \in Dicts(TerminalEntriesS, MaxTermsS) :
                   /\ "a" \in Keys(d)
                   /\ ("KEYWORD" \in Keys(d) => "b" \in Keys(d))},
        rs \in {<<>>, <<"b">>}}

ScanTexts == {"fork", "for", "fo r", " for"}

\* what a user's recognizer may return at pos: nothing, or some text that
\* starts there
CustomResults(in_str, pos) ==
    {NoneName} \cup {Slice(in_str, pos, pos + k) : k \in 1..(Len(in_str) - pos)}

\* the sets of terminals a state may expect
ExpectedSets(g) ==
    {{TRef(n) : n \in ns} \cup e :
        ns \in SUBSET (DOMAIN g.terms \ {"KEYWORD"}), e \in {{}, {EOF}}} \ {{}}

InitS == InitWith(CallsS)

\* the scanner called by a driver in a state that expects `expected`
Scan ==
    /\ pc = "built"
    /\ \E in_str \in ScanTexts, expected \in ExpectedSets(grammar) :
         \E position \in 0..Len(in_str) :
           \E custom \in IF \E r \in expected :
                                  SymbolOf(grammar, specials, r).recognizer.cls = "callable"
                           THEN CustomResults(in_str, skip_ws(in_str, position))
                           ELSE {NoneName} :
              /\ parser' = [kind |-> "scanner", in_str |-> in_str,
                            position |-> position, expected |-> expected,
                            custom |-> custom]
              /\ result' = scan(grammar, specials, expected, in_str, position, custom)
    /\ pc' = "scanned"
    /\ UNCHANGED <<args, grammar, retname, error, specials, overrides, nresolve,
                   resolved>>

NextS == FromStruct \/ Scan

SpecS == InitS /\ [][NextS]_vars

(***************************************************************************)
(* The analyzer (specification 4.C) over the productions P of a grammar:   *)
(* nullable, FIRST, FOLLOW, LR(1) closure and GOTO.  An item is            *)
(* [p, dot, la]: production index, dot position, lookahead terminal.       *)
(***************************************************************************)
IsNonterminalRef(r) == r.k \in {"N", "AUG"}

NonterminalsOf(P) == {P[i].symbol : i \in 1..Len(P)}

SymbolsOf(P) == UNION {SeqToSet(P[i].rhs) : i \in 1..Len(P)}

TerminalsOf(P) == {X \in SymbolsOf(P) : IsTerminalRef(X)}

\* the places <<i, k>> of the right-hand sides where the symbol A stands
Occurrences(P, A) ==
    UNION {{<<i, k>> : k \in {j \in 1..Len(P[i].rhs) : P[i].rhs[j] = A}} : i \in 1..Len(P)}

ProductionsFor(P, A) == {i \in 1..Len(P) : P[i].symbol = A}

\* nullable(X): X derives the empty string; to fixed point
RECURSIVE nullable_fix(_, _)
nullable_fix(P, N) ==
    LET more == {P[i].symbol : i \in {j \in 1..Len(P) :
                                          \A k \in 1..Len(P[j].rhs) : P[j].rhs[k] \in N}}
    IN  IF more \subseteq N THEN N ELSE nullable_fix(P, N \cup more)

nullable(P) == nullable_fix(P, {})

\* first of a sequence of symbols, given first of the nonterminals
RECURSIVE first_seq(_, _, _)
first_seq(seq, F, N) ==
    IF seq = <<>> THEN {}
    ELSE (IF IsTerminalRef(Head(seq)) THEN {Head(seq)} ELSE F[Head(seq)])
         \cup (IF Head(seq) \in N THEN first_seq(Tail(seq), F, N) ELSE {})

RECURSIVE first_fix(_, _, _)
first_fix(P, N, F) ==
    LET step(A) == F[A] \cup UNION {first_seq(P[i].rhs, F, N) : i \in ProductionsFor(P, A)}
        more == [A \in DOMAIN F |-> step(A)]
    IN  IF more = F THEN F ELSE first_fix(P, N, more)

first(P, N) == first_fix(P, N, [A \in NonterminalsOf(P) |-> {}])

\* follow(X), seeded by EOF in follow(start); to fixed point
RECURSIVE follow_fix(_, _, _, _)
follow_fix(P, N, F, W) ==
    LET after(i, k) == SubSeq(P[i].rhs, k + 1, Len(P[i].rhs))
        step(A) ==
            W[A] \cup UNION {first_seq(after(ik[1], ik[2]), F, N)
                               \cup (IF \A j \in (ik[2] + 1)..Len(P[ik[1]].rhs) :
                                            P[ik[1]].rhs[j] \in N
                                     THEN W[P[ik[1]].symbol] ELSE {}) :
                             ik \in Occurrences(P, A)}
        more == [A \in DOMAIN W |-> step(A)]
    IN  IF more = W THEN W ELSE follow_fix(P, N, F, more)

follow(P, N, F, start) ==
    follow_fix(P, N, F, [A \in NonterminalsOf(P) |-> IF A = start THEN {EOF} ELSE {}])

Item(p, dot, la) == [p |-> p, dot |-> dot, la |-> la]

AtEnd(P, it) == it.dot = Len(P[it.p].rhs)

\* the symbol after the dot of an item that is not at its end
NextSymbol(P, it) == P[it.p].rhs[it.dot + 1]

\* closure of an item set: for [A -> alpha . B beta, a] add [B -> . gamma, b]
\* for every production of B and every b in first(beta a)
RECURSIVE closure(_, _, _, _)
closure(P, N, F, I) ==
    LET beta(it) == SubSeq(P[it.p].rhs, it.dot + 2, Len(P[it.p].rhs))
        more == UNION {{Item(q, 0, b) : q \in ProductionsFor(P, NextSymbol(P, it)),
                                        b \in first_seq(beta(it) \o <<it.la>>, F, N)} :
                       it \in {j \in I : /\ ~AtEnd(P, j)
                                         /\ IsNonterminalRef(NextSymbol(P, j))}}
    IN  IF more \subseteq I THEN I ELSE closure(P, N, F, I \cup more)

\* GOTO(I, X): the closure of the items of I moved over X
goto(P, N, F, I, X) ==
    closure(P, N, F, {Item(it.p, it.dot + 1, it.la) :
                         it \in {j \in I : ~AtEnd(P, j) /\ NextSymbol(P, j) = X}})

SymbolsAfterDot(P, I) == {NextSymbol(P, it) : it \in {j \in I : ~AtEnd(P, j)}}

\* the canonical collection of item sets reachable from the first
RECURSIVE collection(_, _, _, _, _)
collection(P, N, F, states, frontier) ==
    LET found == {goto(P, N, F, I, X) : <<I, X>> \in
                      UNION {{<<J, Y>> : Y \in SymbolsAfterDot(P, J)} : J \in frontier}}
    IN  IF found \subseteq states THEN states
        ELSE collection(P, N, F, states \cup found, found \ states)

\* the kernel-independent identity of a state: its items without lookaheads
Core(I) == {<<it.p, it.dot>> : it \in I}

(***************************************************************************)
(* The table builder (specification 4.D).  A table is                      *)
(*   [states, start, actions, gotos, sr_conflicts, rr_conflicts]           *)
(* where a state is named by its kernel, actions[s][t] is the set of       *)
(* actions left for terminal t after disambiguation and gotos[s][A] the    *)
(* state after nonterminal A.                                              *)
(***************************************************************************)
ASSOC_NONE == 0

ASSOC_LEFT == 1

ASSOC_RIGHT == 2

DEFAULT_PRIORITY == 10

\* Terminal.prior and the fields of a Production as their constructors set
\* them; from_struct gives no other values
TerminalPrior(term) == DEFAULT_PRIORITY

ProductionPrior(prod) == DEFAULT_PRIORITY

ProductionAssoc(prod) == ASSOC_NONE

ProductionNops(prod) == FALSE

ProductionNopse(prod) == FALSE

Shift(state) == [kind |-> "shift", state |-> state, prod |-> 0]

Reduce(p) == [kind |-> "reduce", state |-> {}, prod |-> p]

Accept == [kind |-> "accept", state |-> {}, prod |-> 0]

\* nullable, FIRST and FOLLOW of the grammar
analysis(P, start) ==
    LET n(N) == LET f(F) == [N |-> N, F |-> F, W |-> follow(P, N, F, start)]
                IN  f(first(P, N))
    IN  n(nullable(P))

\* the canonical collection, from the item of the augmented production
canonical(P, an) ==
    LET c(I0) == collection(P, an.N, an.F, {I0}, {I0})
    IN  c(closure(P, an.N, an.F, {Item(1, 0, EOF)}))

\* the union of the item sets that have the items of I but for lookaheads
Merged(C, I) == UNION {J \in C : Core(J) = Core(I)}

\* two productions can be reduced in I on the same lookahead
HasRR(P, I) ==
    \E i, j \in I : /\ AtEnd(P, i) /\ AtEnd(P, j)
                    /\ i.p # j.p /\ i.la = j.la

\* joining the states with equal cores introduces no reduce/reduce conflict
merge_ok(P, C) ==
    \A I \in C : HasRR(P, Merged(C, I)) => \E J \in C : Core(J) = Core(I) /\ HasRR(P, J)

\* the state an item set belongs to, and the name of a state: its kernel
StateOf(C, merge, I) == IF merge THEN Merged(C, I) ELSE I

Kernel(I, merge) ==
    {IF merge THEN <<it.p, it.dot>> ELSE <<it.p, it.dot, it.la>> :
        it \in {j \in I : j.dot > 0 \/ j.p = 1}}

\* variant of reduce_stays in which a shift always wins
reduce_stays_never(P, g, sp, opts, t, r) == FALSE

\* the reduce of production r stays beside a shift of terminal t
reduce_stays(P, g, sp, opts, t, r) ==
    /\ ~(TerminalPrior(SymbolOf(g, sp, t)) > ProductionPrior(P[r]))
    /\ ~(/\ TerminalPrior(SymbolOf(g, sp, t)) = ProductionPrior(P[r])
         /\ ProductionAssoc(P[r]) = ASSOC_RIGHT)
    /\ ~(opts.prefer_shifts /\ ~ProductionNops(P[r]))
    /\ ~(opts.prefer_shifts_over_empty /\ P[r].rhs = <<>> /\ ~ProductionNopse(P[r]))

\* the shift of terminal t stays beside a reduce of production r
shift_stays(P, g, sp, t, r) ==
    /\ ~(TerminalPrior(SymbolOf(g, sp, t)) < ProductionPrior(P[r]))
    /\ ~(/\ TerminalPrior(SymbolOf(g, sp, t)) = ProductionPrior(P[r])
         /\ ProductionAssoc(P[r]) = ASSOC_LEFT)

\* the productions state I can reduce on terminal t
reductions(P, an, opts, I, t) ==
    {it.p : it \in {j \in I : /\ AtEnd(P, j)
                              /\ P[j.p].symbol # AUGSYMBOL
                              /\ t \in (IF opts.tables = "SLR"
                                        THEN an.W[P[j.p].symbol] ELSE {j.la})}}

\* the actions of state I on terminal t after disambiguation
state_actions(P, g, sp, an, C, merge, opts, I, t) ==
    LET shifts == t \in SymbolsAfterDot(P, I)
        reds == reductions(P, an, opts, I, t)
        kept == IF shifts THEN {r \in reds : reduce_stays(P, g, sp, opts, t, r)}
                ELSE reds
        target(J) == Kernel(StateOf(C, merge, J), merge)
    IN  (IF shifts /\ \A r \in reds : shift_stays(P, g, sp, t, r)
         THEN {IF t = STOP THEN Accept
               ELSE Shift(target(goto(P, an.N, an.F, I, t)))}
         ELSE {})
        \cup {Reduce(r) : r \in kept}

NoState == {}

Conflict(state, terminal, acts) ==
    [state |-> state, terminal |-> terminal,
     productions |-> {a.prod : a \in {b \in acts : b.kind = "reduce"}}]

\* the table of the grammar for the options tables, prefer_shifts and
\* prefer_shifts_over_empty
table_of(P, g, sp, an, C, opts) ==
    LET make(merge) ==
            LET S == {StateOf(C, merge, I) : I \in C}
                name(I) == Kernel(I, merge)
                byName == [k \in {name(I) : I \in S} |-> CHOOSE I \in S : name(I) = k]
                acts == [k \in DOMAIN byName |->
                            [t \in TerminalsOf(P) |->
                                state_actions(P, g, sp, an, C, merge, opts, byName[k], t)]]
                gotos == [k \in DOMAIN byName |->
                            [A \in NonterminalsOf(P) |->
                                IF A \in SymbolsAfterDot(P, byName[k])
                                THEN name(StateOf(C, merge,
                                                  goto(P, an.N, an.F, byName[k], A)))
                                ELSE NoState]]
                finish(a) ==
                    [states |-> DOMAIN byName,
                     start |-> name(StateOf(C, merge,
                                            closure(P, an.N, an.F, {Item(1, 0, EOF)}))),
                     actions |-> a,
                     gotos |-> gotos,
                     sr_conflicts |->
                         {Conflict(k, t, a[k][t]) : <<k, t>> \in
                             {kt \in (DOMAIN byName) \X TerminalsOf(P) :
                                 /\ \E x \in a[kt[1]][kt[2]] : x.kind = "shift"
                                 /\ \E x \in a[kt[1]][kt[2]] : x.kind = "reduce"}},
                     rr_conflicts |->
                         {Conflict(k, t, a[k][t]) : <<k, t>> \in
                             {kt \in (DOMAIN byName) \X TerminalsOf(P) :
                                 Cardinality({x \in a[kt[1]][kt[2]] : x.kind = "reduce"}) > 1}}]
            IN  finish(acts)
    IN  make(opts.tables = "SLR" \/ merge_ok(P, C))

build_table(g, sp, opts) ==
    LET t1(an) == LET t2(C) == table_of(g.productions, g, sp, an, C, opts)
                  IN  t2(canonical(g.productions, an))
    IN  t1(analysis(g.productions, g.start_symbol))

(***************************************************************************)
(* Parser construction (specification 4.D and 6): the `actions` are bound  *)
(* by Grammar._resolve_actions, the table is built, and the deterministic  *)
(* parser raises the conflicts that are left: SRConflicts, else            *)
(* RRConflicts.  kind is "Parser" or "GLRParser".                          *)
(***************************************************************************)
SRConflicts(conflicts) ==
    [type |-> "SRConflicts", msg |-> "", names |-> <<>>, conflicts |-> conflicts]

RRConflicts(conflicts) ==
    [type |-> "RRConflicts", msg |-> "", names |-> <<>>, conflicts |-> conflicts]

\* variant of check_table that reports no reduce/reduce conflict
check_table_sr_only(kind, table) ==
    IF kind = "Parser" /\ table.sr_conflicts # {} THEN SRConflicts(table.sr_conflicts)
    ELSE NoError

\* the conflicts the deterministic parser raises
check_table(kind, table) ==
    IF kind = "Parser" /\ table.sr_conflicts # {} THEN SRConflicts(table.sr_conflicts)
    ELSE IF kind = "Parser" /\ table.rr_conflicts # {} THEN RRConflicts(table.rr_conflicts)
    ELSE NoError

\* the constructor raised: no parser, only the options it was called with
NotConstructed(opts) == [kind |-> "None", options |-> opts]

\* [err, g, sp, parser]
parser_init(kind, g, sp, actions, opts) ==
    LET bound(r) ==
            IF IsError(r.err)
            THEN [err |-> r.err, g |-> r.g, sp |-> r.sp, parser |-> NotConstructed(opts)]
            ELSE LET made(table) ==
                         LET checked(e) ==
                                 [err |-> e, g |-> r.g, sp |-> r.sp,
                                  parser |-> IF IsError(e) THEN NotConstructed(opts)
                                             ELSE [kind |-> kind, options |-> opts,
                                                   table |-> table]]
                         IN  checked(check_table(kind, table))
                 IN  made(build_table(r.g, r.sp, opts))
    IN  bound(resolve_actions(g, sp, actions, ~opts.build_tree))

(***************************************************************************)
(* Deterministic parsers constructed on grammars made by from_struct       *)
(***************************************************************************)
MaxProdsP == 2

\* the alternatives of S and of A
SAlts ==
    {<<<<"a">>>>,
     <<<<"b">>, <<"S", "S">>>>,
     <<<<"b">>, <<"S", "S">>, <<"S", "S", "S">>>>,
     <<<<"A", "a">>, <<"a">>>>,
     <<<<"A">>, <<"a">>>>,
     <<<<"A", "b">>>>,
     <<<<"a", "S">>, <<>>>>}

AAlts ==
    {<<<<>>>>,
     <<<<"a">>>>,
     <<<<"a">>, <<>>>>,
     <<<<"A", "a">>, <<"a">>>>}

StringTerminals(names) == [i \in 1..Len(names) |-> [name |-> names[i],
                                                    spec |-> <<"string", names[i]>>]]

GrammarsP ==
    {d \in Dicts({[name |-> "S", alts |-> x] : x \in SAlts}
                   \cup {[name |-> "A", alts |-> x] : x \in AAlts}, MaxProdsP) :
        "S" \in Keys(d)}

CallsP ==
    {[productions_dict |-> pd, terminals_dict |-> StringTerminals(<<"a", "b">>),
      start |-> "S", recognizers |-> <<>>] : pd \in GrammarsP}

TableOptions ==
    [tables : {"SLR", "LALR"}, prefer_shifts : BOOLEAN,
     prefer_shifts_over_empty : BOOLEAN, build_tree : {FALSE},
     call_actions_during_tree_build : {FALSE}]

InitP == InitWith(CallsP)

\* parser = Parser(grammar, actions=actions, **options)
ParserInit ==
    /\ pc = "built"
    /\ \E opts \in TableOptions, actions \in {<<>>, [n \in {"S"} |-> Fn("f")]} :
         \E r \in {parser_init("Parser", grammar, specials, actions, opts)} :
              /\ pc' = IF IsError(r.err) THEN "init_error" ELSE "ready"
              /\ error' = r.err
              /\ grammar' = r.g
              /\ specials' = r.sp
              /\ parser' = r.parser
              /\ overrides' = actions
    /\ nresolve' = nresolve + 1
    /\ UNCHANGED <<args, retname, resolved, result>>

NextP == FromStruct \/ ParserInit

SpecP == InitP /\ [][NextP]_vars

(***************************************************************************)
(* The LR driver (specification 4.F).  A frame of the stack is             *)
(*   [state, result, start, end, layout]                                   *)
(* where result is the semantic value, or the tree node when build_tree.   *)
(* A node is [symbol, prod, value, children, start, end, layout], prod = 0 *)
(* and value the matched text for a terminal.  A semantic value is         *)
(* [fn, text, args]: the callable that returned it ("" for the default     *)
(* action), the matched text of a token and the values of the children.    *)
(* Callables are opaque: a call is recorded in the sequence `calls` with   *)
(* the context it was given.                                               *)
(***************************************************************************)
(***************************************************************************)
(* ProductionRHS: the list of a production's right-hand side, read through *)
(* __getitem__ and __len__                                                 *)
(***************************************************************************)
\* ProductionRHS.__getitem__(idx) over the raw list: list.__getitem__ takes
\* a negative idx from the end and raises IndexError outside
\* -len(raw)..len(raw)-1; the loop moves right while it reads EMPTY
RECURSIVE ProductionRHS_getitem(_, _)
ProductionRHS_getitem(raw, idx) ==
    IF idx >= Len(raw) \/ idx < -Len(raw)
    THEN NoRef
    ELSE LET symbol == raw[(IF idx < 0 THEN Len(raw) + idx ELSE idx) + 1]
         IN  IF symbol # EMPTY THEN symbol
             ELSE ProductionRHS_getitem(raw, idx + 1)

\* ProductionRHS.__len__: super().__len__() - self.count(EMPTY)
ProductionRHS_len(raw) ==
    Len(raw) - Cardinality({i \in 1..Len(raw) : raw[i] = EMPTY})

MaxSteps == 40

\* variant of frames_popped that pops a frame for an empty production
frames_popped_at_least_one(g, p) ==
    IF ProductionRHS_len(g.productions[p].rhs) = 0 THEN 1
    ELSE ProductionRHS_len(g.productions[p].rhs)

\* the frames a reduction by production p pops: len(production.rhs)
frames_popped(g, p) == ProductionRHS_len(g.productions[p].rhs)


Frame(state, res, start, end, layout) ==
    [state |-> state, result |-> res, start |-> start, end |-> end, layout |-> layout]

Node(symbol, prod, value, children, start, end, layout) ==
    [symbol |-> symbol, prod |-> prod, value |-> value, children |-> children,
     start |-> start, end |-> end, layout |-> layout]

Value(fn, text, values) == [fn |-> fn, text |-> text, args |-> values]

\* the context an action is called with, and the callable
Call(fn, symbol, prod, start, end, layout, node) ==
    [fn |-> fn, symbol |-> symbol, prod |-> prod, start_position |-> start,
     end_position |-> end, layout_content |-> layout, node |-> node]

\* the callable bound to the symbol for production p (0: a token): its name,
\* "" when none is bound.  Of a list the callable of the alternative.
SemAction(g, sp, symbol, p) ==
    LET a == SymbolOf(g, sp, symbol).action
    IN  IF a.kind = "fn" THEN a.id
        ELSE IF a.kind = "list" /\ p > 0
        THEN "list[" \o ToString(g.productions[p].prod_symbol_id) \o "]"
        ELSE ""

\* the terminals a state has an action for: the filter of the scanner
expected_terminals(table, state) ==
    {t \in DOMAIN table.actions[state] : table.actions[state][t] # {}}

\* the frame of a shifted token and the calls made for it
shift_action(g, sp, opts, state, tok, start, layout) ==
    LET end == start + Len(tok.value)
        fn == SemAction(g, sp, tok.symbol, 0)
        called == fn # "" /\ (~opts.build_tree \/ opts.call_actions_during_tree_build)
    IN  [frame |-> Frame(state,
                         IF opts.build_tree
                         THEN Node(tok.symbol, 0, tok.value, <<>>, start, end, layout)
                         ELSE Value(fn, tok.value, <<>>),
                         start, end, layout),
         calls |-> IF called
                   THEN <<Call(fn, tok.symbol, 0, start, end, layout, opts.build_tree)>>
                   ELSE <<>>]

\* the frame of a reduction by production p over the popped frames, pushed
\* on the state `state`, and the calls made for it.  An empty reduction
\* spans nothing at the current position.
reduce_action(g, sp, opts, state, p, popped, position) ==
    LET n == Len(popped)
        symbol == g.productions[p].symbol
        start == IF n = 0 THEN position ELSE popped[1].start
        end == IF n = 0 THEN position ELSE popped[n].end
        layout == IF n = 0 THEN "" ELSE popped[1].layout
        fn == SemAction(g, sp, symbol, p)
        called == fn # "" /\ (~opts.build_tree \/ opts.call_actions_during_tree_build)
        results == [i \in 1..n |-> popped[i].result]
    IN  [frame |-> Frame(state,
                         IF opts.build_tree
                         THEN Node(symbol, p, "", results, start, end, layout)
                         ELSE Value(fn, "", results),
                         start, end, layout),
         calls |-> IF called
                   THEN <<Call(fn, symbol, p, start, end, layout, opts.build_tree)>>
                   ELSE <<>>]

Parsed(res, position, calls, tokens) ==
    [kind |-> "ok", result |-> res, position |-> position, calls |-> calls,
     tokens |-> tokens]

Failed(err, calls, tokens) ==
    [kind |-> "error", error |-> err, calls |-> calls, tokens |-> tokens]

\* a reduction by production prod made on a stack of depth frames: the
\* frames it popped and the state it pushed (NoState when it pushed none)
Reduced(prod, popped, depth, state) ==
    [prod |-> prod, popped |-> popped, depth |-> depth, goto |-> state]

\* the outcome of a parse with the reductions made on the way
Traced(r, reduces) == r @@ [reduces |-> reduces]

\* the loop of the driver: scan in the state on top of the stack, then
\* shift, reduce or accept.  tokens are the shifted tokens with the position
\* they start at.
RECURSIVE lr_loop(_, _, _, _, _, _, _, _, _)
lr_loop(table, opts, g, sp, in_str, stack, position, log, fuel) ==
    LET top == stack[Len(stack)]
        step(s) ==
            IF s.kind = "error" THEN Traced(Failed(s, log.calls, log.tokens), log.reduces)
            ELSE LET act == CHOOSE a \in table.actions[top.state][s.token.symbol] : TRUE
                 IN  IF act.kind = "accept"
                     THEN Traced(Parsed(top.result, s.position, log.calls, log.tokens),
                                 log.reduces)
                     ELSE IF act.kind = "shift"
                     THEN LET pushed(r) ==
                                  lr_loop(table, opts, g, sp, in_str,
                                          Append(stack, r.frame), r.frame.end,
                                          [calls |-> log.calls \o r.calls,
                                           tokens |-> Append(log.tokens,
                                                             [symbol |-> s.token.symbol,
                                                              value |-> s.token.value,
                                                              start |-> s.position]),
                                           reduces |-> log.reduces],
                                          fuel - 1)
                          IN  pushed(shift_action(g, sp, opts, act.state, s.token,
                                                  s.position, s.layout_content))
                     ELSE LET n == frames_popped(g, act.prod)
                              lhs == g.productions[act.prod].symbol
                              internal(type) ==
                                  Traced(Failed([kind |-> "error", type |-> type,
                                                 position |-> position, expected |-> {}],
                                                log.calls, log.tokens),
                                         Append(log.reduces,
                                                Reduced(act.prod, n, Len(stack), NoState)))
                              pushed(below, r) ==
                                  lr_loop(table, opts, g, sp, in_str,
                                          Append(below, r.frame), position,
                                          [log EXCEPT
                                              !.calls = @ \o r.calls,
                                              !.reduces =
                                                  Append(@, Reduced(act.prod, n, Len(stack),
                                                                   r.frame.state))],
                                          fuel - 1)
                              onto(below) ==
                                  IF table.gotos[below[Len(below)].state][lhs] = NoState
                                  THEN internal("NoGoto")
                                  ELSE pushed(below,
                                              reduce_action(
                                                  g, sp, opts,
                                                  table.gotos[below[Len(below)].state][lhs],
                                                  act.prod,
                                                  SubSeq(stack, Len(stack) - n + 1,
                                                         Len(stack)),
                                                  position))
                          IN  IF n >= Len(stack) THEN internal("Underflow")
                              ELSE onto(SubSeq(stack, 1, Len(stack) - n))
    IN  IF fuel = 0
        THEN Traced(Failed([kind |-> "error", type |-> "Loop", position |-> position,
                            expected |-> {}], log.calls, log.tokens), log.reduces)
        ELSE step(scan(g, sp, expected_terminals(table, top.state), in_str, position,
                       NoneName))

\* parser.parse(in_str)
lr_parse(prs, g, sp, in_str) ==
    lr_loop(prs.table, prs.options, g, sp, in_str,
            <<Frame(prs.table.start, Value("", "", <<>>), 0, 0, "")>>, 0,
            [calls |-> <<>>, tokens |-> <<>>, reduces |-> <<>>], MaxSteps)

\* variant of call_actions that calls the action of a node before those of
\* its children
RECURSIVE call_actions_parent_first(_, _, _)
call_actions_parent_first(g, sp, node) ==
    LET sub == [i \in 1..Len(node.children) |->
                   call_actions_parent_first(g, sp, node.children[i])]
        fn == SemAction(g, sp, node.symbol, node.prod)
    IN  (IF fn # ""
         THEN <<Call(fn, node.symbol, node.prod, node.start, node.end, node.layout,
                     TRUE)>>
         ELSE <<>>)
        \o Flatten(sub)

\* parser.call_actions(node): the actions are called depth-first, children
\* before their parent, each with the positions and layout of its node
RECURSIVE call_actions(_, _, _)
call_actions(g, sp, node) ==
    LET sub == [i \in 1..Len(node.children) |-> call_actions(g, sp, node.children[i])]
        fn == SemAction(g, sp, node.symbol, node.prod)
    IN  Flatten(sub)
        \o (IF fn # ""
            THEN <<Call(fn, node.symbol, node.prod, node.start, node.end, node.layout,
                        TRUE)>>
            ELSE <<>>)

(***************************************************************************)
(* Parsing with deterministic parsers on grammars made by from_struct      *)
(***************************************************************************)
MaxLenL == 3

\* the productions and terminals of the calls
GrammarsL ==
    {[p |-> <<[name |-> "S", alts |-> <<<<"S", "a">>, <<"a">>>>]>>,
      t |-> <<<<"a", "string", "a">>, <<"b", "string", "b">>>>],
     [p |-> <<[name |-> "S", alts |-> <<<<"a", "b">>, <<"a">>>>]>>,
      t |-> <<<<"a", "string", "a">>, <<"b", "string", "b">>>>],
     [p |-> <<[name |-> "S", alts |-> <<<<"S", "+", "a">>, <<"a">>>>]>>,
      t |-> <<<<"a", "regexp", "\\w+">>, <<"+", "string", "+">>>>],
     [p |-> <<[name |-> "S", alts |-> <<<<"a">>, <<"b">>>>]>>,
      t |-> <<<<"a", "regexp", "a">>, <<"b", "regexp", "\\w+">>>>],
     [p |-> <<[name |-> "S", alts |-> <<<<"A", "a">>>>],
              [name |-> "A", alts |-> <<<<"b">>, <<>>>>]>>,
      t |-> <<<<"a", "string", "a">>, <<"b", "string", "b">>>>],
     [p |-> <<[name |-> "S", alts |-> <<<<"b">>, <<"S", "S">>>>]>>,
      t |-> <<<<"a", "string", "a">>, <<"b", "string", "b">>>>]}

CallsL ==
    {[productions_dict |-> x.p,
      terminals_dict |-> [i \in 1..Len(x.t) |->
                             [name |-> x.t[i][1], spec |-> <<x.t[i][2], x.t[i][3]>>]],
      start |-> "S", recognizers |-> <<>>] : x \in GrammarsL}

Alphabet == {"a", "b", "+", " "}

RECURSIVE Texts(_)
Texts(n) ==
    IF n = 0 THEN {""}
    ELSE Texts(n - 1) \cup {t \o c : t \in {u \in Texts(n - 1) : Len(u) = n - 1},
                                     c \in Alphabet}

InputsL == Texts(MaxLenL)

DriverOptions ==
    [tables : {"LALR"}, prefer_shifts : {TRUE}, prefer_shifts_over_empty : {TRUE},
     build_tree : BOOLEAN, call_actions_during_tree_build : BOOLEAN]

ActionsL ==
    {<<>>,
     [n \in {"S", "a", "EOF"} |-> Fn(IF n = "S" THEN "f" ELSE IF n = "a" THEN "g"
                                     ELSE "h")]}

InitL == InitWith(CallsL)

\* parser = Parser(grammar, actions=actions, **options)
ParserInitL ==
    /\ pc = "built"
    /\ \E opts \in DriverOptions, actions \in ActionsL :
         \E r \in {parser_init("Parser", grammar, specials, actions, opts)} :
              /\ pc' = IF IsError(r.err) THEN "init_error" ELSE "ready"
              /\ error' = r.err
              /\ grammar' = r.g
              /\ specials' = r.sp
              /\ parser' = r.parser
              /\ overrides' = actions
    /\ nresolve' = nresolve + 1
    /\ UNCHANGED <<args, retname, resolved, result>>

\* result = parser.parse(in_str)
Parse ==
    /\ pc = "ready"
    /\ \E in_str \in InputsL :
         \E r \in {lr_parse(parser, grammar, specials, in_str)} :
              /\ pc' = IF r.kind = "ok" THEN "parsed" ELSE "parse_error"
              /\ result' = [in_str |-> in_str, parse |-> r]
    /\ UNCHANGED <<args, grammar, retname, error, specials, overrides, nresolve,
                   resolved, parser>>

\* parser.call_actions(tree) on the tree a parse with build_tree returned
CallActions ==
    /\ pc = "parsed"
    /\ parser.options.build_tree
    /\ pc' = "called"
    /\ result' = [in_str |-> result.in_str, parse |-> result.parse,
                  calls |-> call_actions(grammar, specials, result.parse.result)]
    /\ UNCHANGED <<args, grammar, retname, error, specials, overrides, nresolve,
                   resolved, parser>>

NextL == FromStruct \/ ParserInitL \/ Parse \/ CallActions

SpecL == InitL /\ [][NextL]_vars

(***************************************************************************)
(* The GLR driver (specification 4.G).  The heads of the graph-structured  *)
(* stack are followed as the set of the stacks they stand for: a           *)
(* configuration is [stack, position, trace, entered], trace the shifts    *)
(* and reductions made so far, entered the (depth, state) pairs the head   *)
(* came to since it last consumed input.  Every action the table has for a *)
(* token is taken; a configuration that accepts is one result.             *)
(***************************************************************************)
\* the callable of test_empty_recognizer: the run of b at pos, which is
\* empty when there is none
RECURSIVE match_bs(_, _)
match_bs(in_str, pos) ==
    IF pos < Len(in_str) /\ CharAt(in_str, pos + 1) = "b"
    THEN "b" \o match_bs(in_str, pos + 1)
    ELSE ""

\* the depth after which empty reductions are suppressed: the number of
\* nullable nonterminals
empty_depth(g) == Cardinality(nullable(g.productions))

\* variant of suppressed that cuts no cycle
suppressed_never(c, depth, state, empty, bound) == FALSE

\* cycle avoidance, for a move of the head c that consumes no input and
\* pushes `state` as frame number `depth`: the move is suppressed when the
\* head came to this state at this depth and position before, and, for an
\* empty reduction or an empty token, when it came to this state at this
\* position more than `bound` times
suppressed(c, depth, state, empty, bound) ==
    \/ <<depth, state>> \in c.entered
    \/ empty /\ Cardinality({e \in c.entered : e[2] = state}) > bound

\* the head after a move of c that pushed frame on the frames `below`
Moved(c, below, frame, empty, bound, step) ==
    LET depth == Len(below) + 1
        consumed == frame.end > c.position
    IN  [kind |-> IF ~consumed /\ suppressed(c, depth, frame.state, empty, bound)
                  THEN "cut" ELSE "head",
         stack |-> Append(below, frame),
         position |-> frame.end,
         trace |-> Append(c.trace, step),
         entered |-> IF consumed THEN {<<depth, frame.state>>}
                     ELSE c.entered \cup {<<depth, frame.state>>}]

\* the configurations one step after c, and the results: every token at the
\* position (no lexical disambiguation), every action for the token
glr_successors(table, opts, g, sp, in_str, c) ==
    LET top == c.stack[Len(c.stack)]
        start == skip_ws(in_str, c.position)
        layout == Slice(in_str, c.position, start)
        apply(tok, act) ==
            IF act.kind = "accept"
            THEN [kind |-> "accept", stack |-> c.stack, position |-> start,
                  trace |-> c.trace, entered |-> c.entered]
            ELSE IF act.kind = "shift"
            THEN LET pushed(r) ==
                         Moved(c, c.stack, r.frame, tok.value = "", empty_depth(g),
                               [symbol |-> tok.symbol, prod |-> 0, start |-> start])
                 IN  pushed(shift_action(g, sp, opts, act.state, tok, start, layout))
            ELSE LET n == frames_popped(g, act.prod)
                     below == SubSeq(c.stack, 1, Len(c.stack) - n)
                     pushed(r) ==
                         Moved(c, below, r.frame, n = 0, empty_depth(g),
                               [symbol |-> g.productions[act.prod].symbol,
                                prod |-> act.prod, start |-> start])
                 IN  pushed(reduce_action(
                                g, sp, opts,
                                table.gotos[below[Len(below)].state]
                                           [g.productions[act.prod].symbol],
                                act.prod,
                                SubSeq(c.stack, Len(c.stack) - n + 1, Len(c.stack)),
                                c.position))
    IN  {apply(x[1], x[2]) :
            x \in UNION {{<<t, a>> : a \in table.actions[top.state][t.symbol]} :
                            t \in tokens_at(g, sp, expected_terminals(table, top.state),
                                            in_str, start, match_bs(in_str, start))}}

\* the steps of the driver until no head can progress; cut counts the
\* moves that cycle avoidance suppressed
RECURSIVE glr_loop(_, _, _, _, _, _, _, _, _)
glr_loop(table, opts, g, sp, in_str, heads, accepted, cut, fuel) ==
    IF heads = {} \/ fuel = 0 THEN [accepted |-> accepted, heads |-> heads, cut |-> cut]
    ELSE LET next(found) ==
                 glr_loop(table, opts, g, sp, in_str,
                          {c \in found : c.kind = "head"},
                          accepted \cup {c \in found : c.kind = "accept"},
                          cut + Cardinality({c \in found : c.kind = "cut"}), fuel - 1)
         IN  next(UNION {glr_successors(table, opts, g, sp, in_str, c) : c \in heads})

\* parser.parse(in_str) of a GLRParser: one result for every configuration
\* that accepted at the end of the input, ParseError when there is none
glr_parse(prs, g, sp, in_str) ==
    LET done(r) ==
            LET results == {c \in r.accepted : c.position = Len(in_str)}
            IN  IF r.heads # {}
                THEN [kind |-> "error",
                      error |-> [kind |-> "error", type |-> "Loop", position |-> 0,
                                 expected |-> {}],
                      results |-> {}, suppressed |-> r.cut]
                ELSE IF results = {}
                THEN [kind |-> "error", error |-> ParseError(0, {}), results |-> {},
                      suppressed |-> r.cut]
                ELSE [kind |-> "ok",
                      results |-> {[result |-> c.stack[Len(c.stack)].result,
                                    trace |-> c.trace] : c \in results},
                      suppressed |-> r.cut]
    IN  done(glr_loop(prs.table, prs.options, g, sp, in_str,
                      {[kind |-> "head",
                        stack |-> <<Frame(prs.table.start, Value("", "", <<>>), 0, 0, "")>>,
                        position |-> 0, trace |-> <<>>,
                        entered |-> {<<1, prs.table.start>>}]},
                      {}, 0, MaxSteps))

(***************************************************************************)
(* Parsing with GLR parsers on grammars made by from_struct                *)
(***************************************************************************)
MaxLenG == 4

GrammarsG ==
    {<<[name |-> "S", alts |-> <<<<"b">>, <<"S", "S">>, <<"S", "S", "S">>>>]>>,
     <<[name |-> "E", alts |-> <<<<"E", "+", "E">>, <<"a">>>>]>>,
     <<[name |-> "s", alts |-> <<<<>>, <<"a">>, <<"s", "a">>>>]>>,
     <<[name |-> "S", alts |-> <<<<"S", "a">>, <<"a">>>>]>>,
     <<[name |-> "S", alts |-> <<<<"A", "a">>, <<"a">>>>],
       [name |-> "A", alts |-> <<<<>>>>]>>}

CallsG ==
    {[productions_dict |-> pd, terminals_dict |-> StringTerminals(<<"a", "b", "+">>),
      start |-> pd[1].name, recognizers |-> <<>>] : pd \in GrammarsG}

AlphabetG == {"a", "b", "+"}

RECURSIVE TextsG(_)
TextsG(n) ==
    IF n = 0 THEN {""}
    ELSE TextsG(n - 1) \cup {t \o c : t \in {u \in TextsG(n - 1) : Len(u) = n - 1},
                                      c \in AlphabetG}

InputsG == TextsG(MaxLenG) \cup {"a+a+a", " b b"}

\* the options of a GLRParser by default, and without
\* prefer_shifts_over_empty
GLRDefaults ==
    [tables |-> "LALR", prefer_shifts |-> FALSE, prefer_shifts_over_empty |-> TRUE,
     build_tree |-> FALSE, call_actions_during_tree_build |-> FALSE]

GLROptions == {GLRDefaults, [GLRDefaults EXCEPT !.prefer_shifts_over_empty = FALSE]}

InitG == InitWith(CallsG)

\* parser = GLRParser(grammar, **options)
GLRParserInit ==
    /\ pc = "built"
    /\ \E opts \in GLROptions :
         \E r \in {parser_init("GLRParser", grammar, specials, <<>>, opts)} :
              /\ pc' = IF IsError(r.err) THEN "init_error" ELSE "ready"
              /\ error' = r.err
              /\ grammar' = r.g
              /\ specials' = r.sp
              /\ parser' = r.parser
    /\ overrides' = <<>>
    /\ nresolve' = nresolve + 1
    /\ UNCHANGED <<args, retname, resolved, result>>

\* results = parser.parse(in_str)
GLRParse ==
    /\ pc = "ready"
    /\ parser.kind = "GLRParser"
    /\ \E in_str \in InputsG :
         \E r \in {glr_parse(parser, grammar, specials, in_str)} :
              /\ pc' = IF r.kind = "ok" THEN "parsed" ELSE "parse_error"
              /\ result' = [in_str |-> in_str, parse |-> r]
    /\ UNCHANGED <<args, grammar, retname, error, specials, overrides, nresolve,
                   resolved, parser>>

NextG == FromStruct \/ GLRParserInit \/ GLRParse

SpecG == InitG /\ [][NextG]_vars

(***************************************************************************)
(* GLR parsers on cyclic grammars and on terminals that match the empty    *)
(* text                                                                    *)
(***************************************************************************)
\* the terminal t of test_empty_recognizer (a callable given in
\* `recognizers`) and of test_empty_terminal (a regexp that matches the
\* empty text)
EmptyMatching == {[spec |-> <<"string", "a">>, recognizers |-> <<"t">>],
                  [spec |-> <<"regexp", "\\w*">>, recognizers |-> <<>>]}

\* a: a t | t for both terminals t, and S: S A | A, A: a | <empty>;
\* S: A, A: S | a;  S: A S b | a, A: <empty>
CallsC ==
    {[productions_dict |-> <<[name |-> "a", alts |-> <<<<"a", "t">>, <<"t">>>>]>>,
      terminals_dict |-> <<[name |-> "t", spec |-> t.spec]>>,
      start |-> "a", recognizers |-> t.recognizers] : t \in EmptyMatching}
    \cup
    {[productions_dict |-> pd, terminals_dict |-> StringTerminals(<<"a", "b", "+">>),
      start |-> "S", recognizers |-> <<>>] :
        pd \in {<<[name |-> "S", alts |-> <<<<"S", "A">>, <<"A">>>>],
                  [name |-> "A", alts |-> <<<<"a">>, <<>>>>]>>,
                <<[name |-> "S", alts |-> <<<<"A">>>>],
                  [name |-> "A", alts |-> <<<<"S">>, <<"a">>>>]>>,
                <<[name |-> "S", alts |-> <<<<"A", "S", "b">>, <<"a">>>>],
                  [name |-> "A", alts |-> <<<<>>>>]>>}}

InitC == InitWith(CallsC)

SpecC == InitC /\ [][NextG]_vars

(***************************************************************************)
(* Properties of Grammar.from_struct                                       *)
(***************************************************************************)
\* keys of the terminals mapping and of the productions mapping of the call
TerminalKeys == Keys(args.terminals_dict)

ProductionKeys == Keys(args.productions_dict)

\* the names referenced in the alternatives of the productions mapping
ReferencedNames ==
    UNION {SeqToSet(Flatten(args.productions_dict[i].alts)) :
               i \in 1..Len(args.productions_dict)}

UndefinedReference == ReferencedNames \ (TerminalKeys \cup ProductionKeys) # {}

UndefinedStart == args.start \notin TerminalKeys \cup ProductionKeys

RaisedGrammarError ==
    /\ pc = "raised"
    /\ error.type = "GrammarError"
    /\ grammar = NoGrammar
    /\ retname = NoneName

\* C1: from_struct raises GrammarError and returns no grammar whenever an
\* alternative references a name that is a key of neither mapping, or the
\* start name is not a key of either mapping.
C1_UndefinedSymbolRaises ==
    (pc # "call" /\ (UndefinedReference \/ UndefinedStart)) => RaisedGrammarError

\* a call whose only fault is an undefined reference has raised
C1_Witness ==
    /\ pc = "raised"
    /\ UndefinedReference
    /\ ~UndefinedStart
    /\ error.msg = "reference to undefined symbol"
    /\ error.names[2] \in ReferencedNames \ (TerminalKeys \cup ProductionKeys)

ReservedNames == {"EOF", "STOP", "EMPTY", "__start"}

\* C2: from_struct raises GrammarError whenever one of EOF, STOP, EMPTY,
\* __start is a key of the terminals mapping or of the productions mapping,
\* whatever else the call contains; no grammar is returned for such a call.
C2_ReservedNameRaises ==
    (pc # "call" /\ ReservedNames \cap (TerminalKeys \cup ProductionKeys) # {})
        => RaisedGrammarError

\* an otherwise valid call declaring the production __start has raised
C2_Witness ==
    /\ pc = "raised"
    /\ "__start" \in ProductionKeys
    /\ error.msg = "symbol name is reserved"
    /\ ~UndefinedReference
    /\ ~UndefinedStart

\* the literal of the string recognizer a declaration gives its terminal
\* (NoneName when it gives a recognizer of another kind)
DeclaredLiteral(e) ==
    IF Len(e.spec) = 2 /\ e.spec[1] = "string" THEN e.spec[2] ELSE NoneName

\* two distinct declared terminals i, j carry the same string literal
SameLiteral(i, j) ==
    /\ i # j
    /\ DeclaredLiteral(args.terminals_dict[i]) # NoneName
    /\ DeclaredLiteral(args.terminals_dict[i]) = DeclaredLiteral(args.terminals_dict[j])

SharedLiteral ==
    \E i, j \in 1..Len(args.terminals_dict) : SameLiteral(i, j)

\* the recognizer the declaration of terminal i gives it
CarriedRecognizer(i) ==
    make_terminal(args.terminals_dict[i].name, args.terminals_dict[i].spec).term.recognizer

\* the error names two distinct declared terminals whose string recognizers
\* have the same value
ErrorNamesBoth ==
    \E i, j \in 1..Len(args.terminals_dict) :
        /\ i # j
        /\ SeqToSet(error.names) =
               {args.terminals_dict[i].name, args.terminals_dict[j].name}
        /\ CarriedRecognizer(i).cls = "StringRecognizer"
        /\ CarriedRecognizer(i) = CarriedRecognizer(j)

\* no two terminals of the built grammar share a string recognizer value
NoSharedStringRecognizer ==
    \A n, m \in DOMAIN grammar.terms :
        (/\ n # m
         /\ grammar.terms[n].recognizer.cls = "StringRecognizer"
         /\ grammar.terms[m].recognizer.cls = "StringRecognizer")
            => grammar.terms[n].recognizer.value # grammar.terms[m].recognizer.value

\* every check from_struct makes before it constructs the Grammar passes
FromStructChecksPass ==
    /\ \A i \in 1..Len(args.terminals_dict) :
           ~IsError(make_terminal(args.terminals_dict[i].name,
                                  args.terminals_dict[i].spec).err)
    /\ TerminalKeys \cap ProductionKeys = {}
    /\ \A i \in 1..Len(args.productions_dict) :
           ~IsError(check_symbol_name(args.productions_dict[i].name))
    /\ ~UndefinedReference
    /\ ~UndefinedStart
    /\ "__start" \notin TerminalKeys \cup ProductionKeys

\* C3 as stated: whenever two distinct declared terminals carry the same
\* string literal, construction raises GrammarError and the error names both
\* terminals; a built grammar has no two terminals sharing a string value.
C3_AsStated ==
    /\ (pc # "call" /\ SharedLiteral) => (RaisedGrammarError /\ ErrorNamesBoth)
    /\ pc = "built" => NoSharedStringRecognizer

\* C3: whenever two distinct declared terminals carry the same string
\* literal, construction raises GrammarError and returns no grammar; when
\* every check that from_struct makes before constructing the Grammar passes,
\* that error is the one that names two terminals sharing a literal; a built
\* grammar has no two terminals sharing a string recognizer value.
C3_DuplicateStringRaises ==
    /\ (pc # "call" /\ SharedLiteral) => RaisedGrammarError
    /\ (pc # "call" /\ SharedLiteral /\ FromStructChecksPass)
           => (error.msg = "Terminals match the same string." /\ ErrorNamesBoth)
    /\ pc = "built" => NoSharedStringRecognizer

\* two well-formed declarations with the same literal were rejected by name
C3_Witness ==
    /\ pc = "raised"
    /\ SharedLiteral
    /\ FromStructChecksPass
    /\ error.msg = "Terminals match the same string."
    /\ Len(error.names) = 2

\* C4: construction raises GrammarError whenever a name is both a key of the
\* terminals mapping and the left-hand side of a production; in a built
\* grammar no name is both a terminal name and a nonterminal name.
C4_DisjointNames ==
    /\ (pc # "call" /\ TerminalKeys \cap ProductionKeys # {}) => RaisedGrammarError
    /\ pc = "built" => SeqToSet(grammar.t_keys) \cap SeqToSet(grammar.nt_keys) = {}

\* the alternatives of the productions mapping, in declaration order
UserProductions ==
    Flatten([i \in 1..Len(args.productions_dict) |->
                [j \in 1..Len(args.productions_dict[i].alts) |->
                    [lhs |-> args.productions_dict[i].name,
                     rhs |-> args.productions_dict[i].alts[j]]]])

\* a production, by the names of its symbols
ProductionNamesOf(p) ==
    [lhs |-> p.symbol.n, rhs |-> [k \in 1..Len(p.rhs) |-> p.rhs[k].n]]

\* C5: in a grammar returned by from_struct the production with id 0 is
\* S' -> [__start, STOP], the production with id 1 is
\* __start -> [start, EOF], the user's productions follow in declaration
\* order, and the second returned value is the name __start.
C5_ProductionOrder ==
    pc = "built" =>
        /\ Len(grammar.productions) = Len(UserProductions) + 2
        /\ \A i \in 1..Len(grammar.productions) : grammar.productions[i].prod_id = i - 1
        /\ grammar.productions[1].symbol = AUGSYMBOL
        /\ grammar.productions[1].rhs = <<NRef("__start"), STOP>>
        /\ grammar.productions[2].symbol = NRef("__start")
        /\ grammar.productions[2].rhs[2] = EOF
        /\ ProductionNamesOf(grammar.productions[2])
               = [lhs |-> "__start", rhs |-> <<args.start, "EOF">>]
        /\ \A i \in 1..Len(UserProductions) :
               ProductionNamesOf(grammar.productions[i + 2]) = UserProductions[i]
        /\ retname = "__start"

\* a grammar with productions of two nonterminals was returned
C5_Witness ==
    /\ pc = "built"
    /\ Len(args.productions_dict) = 2
    /\ Len(UserProductions) >= 3
    /\ grammar.productions[3].symbol # grammar.productions[Len(grammar.productions)].symbol

(***************************************************************************)
(* Properties of the terminals' recognizers                                *)
(***************************************************************************)
\* the recognizer and the keyword flag of the terminal named n after
\* construction
TerminalAfter(n) == IF n \in DOMAIN grammar.terms THEN grammar.terms[n] ELSE specials[n]

\* the terminals mapping declares KEYWORD with a regex recognizer
KeywordDeclared ==
    \E i \in 1..Len(args.terminals_dict) :
        /\ args.terminals_dict[i].name = "KEYWORD"
        /\ CarriedRecognizer(i).cls = "RegExRecognizer"

KeywordRecognizer ==
    CarriedRecognizer(CHOOSE i \in 1..Len(args.terminals_dict) :
                          args.terminals_dict[i].name = "KEYWORD")

\* terminal i had a string recognizer whose whole literal is what the
\* KEYWORD recognizer returns at its start
IsKeyword(i) ==
    /\ KeywordDeclared
    /\ CarriedRecognizer(i).cls = "StringRecognizer"
    /\ RegExRecognizer_call(KeywordRecognizer, CarriedRecognizer(i).value, 0)
           = CarriedRecognizer(i).value

KeywordPattern(i) ==
    RegExRecognizerObj("\\b" \o CarriedRecognizer(i).value \o "\\b", FALSE)

Overridden(n) == n \in SeqToSet(args.recognizers)

C7_ExternalNeedsRecognizer ==
    pc = "built" =>
        \A i \in 1..Len(args.terminals_dict) :
            args.terminals_dict[i].spec[1] = "external"
                => Overridden(args.terminals_dict[i].name)

\* the names of the terminals a recognizer can be given for
TerminalNamesOfGrammar == TerminalKeys \cup {"EMPTY", "EOF", "STOP"}

\* C8: construction raises GrammarError whenever a key of the recognizers
\* option names no symbol of the grammar or names a nonterminal; in a built
\* grammar the recognizer of every terminal named by a key is the callable
\* given under that key.
C8_RecognizersOption ==
    /\ (pc # "call" /\ SeqToSet(args.recognizers) \ TerminalNamesOfGrammar # {})
           => RaisedGrammarError
    /\ pc = "built" =>
           \A n \in SeqToSet(args.recognizers) : TerminalAfter(n).recognizer = Callable(n)

\* a grammar was built in which a callable replaced a declared regex
C8_Witness ==
    /\ pc = "built"
    /\ \E i \in 1..Len(args.terminals_dict) :
           /\ CarriedRecognizer(i).cls = "RegExRecognizer"
           /\ Overridden(args.terminals_dict[i].name)
           /\ grammar.terms[args.terminals_dict[i].name].recognizer
                  = Callable(args.terminals_dict[i].name)

(***************************************************************************)
(* Properties of action resolution                                         *)
(***************************************************************************)
\* the productions of the grammar whose left-hand side is the symbol ref
ProductionsWithLhs(ref) ==
    {i \in 1..Len(grammar.productions) : grammar.productions[i].symbol = ref}

\* the symbols _resolve_actions visits
VisitedSymbols == SeqToSet(GrammarIter(grammar))

\* the last call gave, under the name of a visited symbol, a list that the
\* symbol cannot take
BadActionList ==
    \E ref \in VisitedSymbols :
        /\ ref.n \in DOMAIN overrides
        /\ overrides[ref.n].kind = "list"
        /\ (IsTerminalRef(ref)
            \/ overrides[ref.n].len # Cardinality(ProductionsWithLhs(ref)))

\* C9: after action resolution succeeds, the action of every nonterminal
\* that is a list has as many elements as the grammar has productions with
\* that nonterminal as left-hand side, and no terminal has a list action;
\* otherwise resolution raises ParserInitError.
C9_ActionLists ==
    /\ pc = "resolved" =>
           \A ref \in VisitedSymbols :
               SymbolOf(grammar, specials, ref).action.kind = "list" =>
                   /\ ~IsTerminalRef(ref)
                   /\ SymbolOf(grammar, specials, ref).action.len
                          = Cardinality(ProductionsWithLhs(ref))
    /\ pc \in {"resolved", "init_error"} => (pc = "init_error" <=> BadActionList)
    /\ pc = "init_error" => error.type = "ParserInitError"

\* resolution succeeded and left a list of two actions on a nonterminal
\* with two productions
C9_Witness ==
    /\ pc = "resolved"
    /\ \E ref \in VisitedSymbols :
           /\ ~IsTerminalRef(ref)
           /\ SymbolOf(grammar, specials, ref).action = ActionList(2)
           /\ Cardinality(ProductionsWithLhs(ref)) = 2

\* what is found under a name: the user's override, else the grammar file's
\* own action (NoAction when neither has one)
FoundUnder(name) ==
    IF name \in DOMAIN args.action_overrides THEN args.action_overrides[name]
    ELSE resolve_action_by_name(args.file, name)

\* the names tried for the symbol, in order: fully qualified symbol name,
\* fully qualified action name, symbol name, action name
NamesTried ==
    <<Fqn(args.symbol.imported_with, args.symbol.name)>>
    \o (IF args.symbol.action_name # NoneName
        THEN <<Fqn(args.symbol.imported_with, args.symbol.action_name)>> ELSE <<>>)
    \o <<args.symbol.name>>
    \o (IF args.symbol.action_name # NoneName THEN <<args.symbol.action_name>> ELSE <<>>)

Found(name) == FoundUnder(name).kind # "None"

\* the action the claim gives the symbol
FirstFound ==
    IF \E k \in 1..Len(NamesTried) : Found(NamesTried[k])
    THEN FoundUnder(NamesTried[CHOOSE k \in 1..Len(NamesTried) :
                                   /\ Found(NamesTried[k])
                                   /\ \A j \in 1..(k - 1) : ~Found(NamesTried[j])])
    ELSE IF args.symbol.action_name \in BuiltinActions
    THEN Fn(args.symbol.action_name)
    ELSE args.symbol.grammar_action

\* C10: the resolved action of a symbol is the first one found when trying,
\* in this order, its fully qualified name, its fully qualified action name,
\* its name, its action name, then the built-in action of its action name,
\* an override being consulted before the grammar file's actions at each
\* step; when nothing is found the symbol's action is its grammar action.
C10_ResolutionOrder ==
    pc = "returned" => resolved.action = FirstFound

\* an override under the action name lost against the file's action under
\* the fully qualified symbol name
C10_Witness ==
    /\ pc = "returned"
    /\ args.symbol.imported_with = "m"
    /\ args.symbol.action_name = "act"
    /\ "act" \in DOMAIN args.action_overrides
    /\ "m.A" \notin DOMAIN args.action_overrides
    /\ "m.A" \in DOMAIN args.file.actions
    /\ resolved.action = Fn("file:m.A")

(***************************************************************************)
(* The grammar after construction                                          *)
(***************************************************************************)
\* C11: once from_struct has returned the grammar, no later operation
\* changes a field of a symbol or production of the grammar (the module-level
\* terminals EMPTY, EOF, STOP included): constructing parsers on it, with any
\* `actions`, leaves it as it was.
C11_GrammarImmutable ==
    [][(pc \in {"built", "resolved", "init_error"})
           => (grammar' = grammar /\ specials' = specials)]_vars

(***************************************************************************)
(* Properties of the built-in recognizers                                  *)
(***************************************************************************)
\* the regex of the call matches at the position, and what it matches there
RegexMatchHere ==
    re_match(args.recognizer.value, args.recognizer.ignore_case, args.in_str, args.pos)

\* the regex recognizer was called where its regex matches the empty string
EmptyRegexMatch ==
    /\ pc = "matched"
    /\ args.recognizer.cls = "RegExRecognizer"
    /\ RegexMatchHere.found
    /\ RegexMatchHere.group = ""

\* C12 as stated: a recognizer whose pattern matches the empty string at the
\* position returns that match, a token of length 0.
C12_AsStated ==
    EmptyRegexMatch => result = ""

\* C12: a regex recognizer returns the text its regex matches at the
\* position only when that text is not empty; where the regex matches the
\* empty string, as where it does not match, the recognizer returns None.
C12_EmptyRegexMatch ==
    (pc = "matched" /\ args.recognizer.cls = "RegExRecognizer") =>
        /\ EmptyRegexMatch => result = NoneName
        /\ result # NoneName =>
               /\ RegexMatchHere.found
               /\ result = RegexMatchHere.group
               /\ Len(result) > 0
        /\ (RegexMatchHere.found /\ RegexMatchHere.group # "") => result # NoneName

\* \w* was called at the end of "for", where it matches the empty string
C12_Witness ==
    /\ EmptyRegexMatch
    /\ args.recognizer.value = "\\w*"
    /\ args.in_str = "for"
    /\ args.pos = 3
    /\ result = NoneName

\* the text of the input at the position, as long as the result
Consumed == Slice(args.in_str, args.pos, args.pos + Len(result))

\* the input matches the recognizer at the position: the literal stands
\* there (in any case when ignore_case), or the regex matches there
MatchesHere ==
    IF args.recognizer.cls = "StringRecognizer"
    THEN LET text == Slice(args.in_str, args.pos, args.pos + Len(args.recognizer.value))
         IN  IF args.recognizer.ignore_case
             THEN Lower(text) = Lower(args.recognizer.value)
             ELSE text = args.recognizer.value
    ELSE RegexMatchHere.found

\* C13: a match returned by a built-in recognizer is exactly the text of the
\* input it consumed, input[pos : pos + len(match)], and when a built-in
\* recognizer returns no match the input does not match at the position.
C13_ExactTextConsumed ==
    pc = "matched" =>
        /\ result # NoneName => result = Consumed
        /\ result = NoneName => ~MatchesHere

(***************************************************************************)
(* Properties of the options of from_struct                                *)
(***************************************************************************)
\* the terminals of the built grammar that have a string or regex recognizer
BuiltinTerminals ==
    {n \in DOMAIN grammar.terms :
        grammar.terms[n].recognizer.cls \in {"StringRecognizer", "RegExRecognizer"}}

\* C14: in the grammar from_struct builds, with ignore_case = true every
\* string and regex terminal matches case-insensitively, and the flags of
\* every regex recognizer are the re_flags given (with IGNORECASE when
\* ignore_case).
C14_OptionsTakeEffect ==
    pc = "built" =>
        \A n \in BuiltinTerminals :
            LET rec == grammar.terms[n].recognizer
            IN  /\ args.ignore_case => rec.ignore_case
                /\ rec.cls = "RegExRecognizer" =>
                       RegExRecognizer_re_flags(rec)
                           = args.re_flags
                               \cup (IF args.ignore_case THEN {"IGNORECASE"} ELSE {})

(***************************************************************************)
(* Properties of the scanner                                               *)
(***************************************************************************)
\* where the scanner looked for a token: after the layout
ScanStart == skip_ws(parser.in_str, parser.position)

\* the text the terminal matches there (NoneName when it does not match)
MatchOf(ref) ==
    recognize(grammar, specials, ref, parser.in_str, ScanStart, parser.custom)

Matching == {ref \in parser.expected : MatchOf(ref) # NoneName}

\* string terminals, and keywords: terminals declared with a string literal
\* that the KEYWORD regex matches entirely
StringOrKeyword(ref) ==
    \/ SymbolOf(grammar, specials, ref).recognizer.cls = "StringRecognizer"
    \/ \E i \in 1..Len(args.terminals_dict) :
           args.terminals_dict[i].name = ref.n /\ IsKeyword(i)

SpecificMatching == {ref \in Matching : StringOrKeyword(ref)}

\* the matches left after specificity, then after length
Candidates == IF SpecificMatching # {} THEN SpecificMatching ELSE Matching

LongestCandidates ==
    {r \in Candidates : \A q \in Candidates : Len(MatchOf(q)) <= Len(MatchOf(r))}

ConstructorReturned == pc \in {"ready", "init_error"} /\ "options" \in DOMAIN parser

\* the cells <<state, terminal>> of a table
Cells(table) ==
    UNION {{<<k, t>> : t \in DOMAIN table.actions[k]} : k \in table.states}

\* C16: in the table of a deterministic parser whose construction succeeded
\* every state has at most one action (shift, reduce or accept) for every
\* terminal.
C16_OneActionPerCell ==
    (pc = "ready" /\ parser.kind = "Parser") =>
        \A c \in Cells(parser.table) :
            Cardinality(parser.table.actions[c[1]][c[2]]) <= 1

\* the cells in which the automaton of the grammar has more than one move
\* before any disambiguation: [state, terminal, shift, productions], a shift
\* of the terminal if `shift` and a reduce of each of `productions`.  The
\* productions and terminals of from_struct have one priority and no
\* associativity, so this is also what priorities and associativity leave.
raw_conflicts(g, opts) ==
    LET P == g.productions
        r1(an) ==
            LET r2(C) ==
                    LET r3(merge) ==
                            {c \in {[state |-> Kernel(I, merge), terminal |-> t,
                                     shift |-> t \in SymbolsAfterDot(P, I),
                                     productions |-> reductions(P, an, opts, I, t)] :
                                        <<I, t>> \in {StateOf(C, merge, J) : J \in C}
                                                         \X TerminalsOf(P)} :
                                Cardinality(c.productions) + (IF c.shift THEN 1 ELSE 0) > 1}
                    IN  r3(opts.tables = "SLR" \/ merge_ok(P, C))
            IN  r2(canonical(P, an))
    IN  r1(analysis(P, g.start_symbol))

IsEmptyProduction(g, p) == g.productions[p].rhs = <<>>

\* a parser was constructed for a grammar in which prefer_shifts resolved a
\* shift/reduce conflict
C16_Witness ==
    /\ pc = "ready"
    /\ parser.kind = "Parser"
    /\ parser.options.prefer_shifts
    /\ \E c \in raw_conflicts(grammar, parser.options) :
           /\ c.shift
           /\ \E p \in c.productions : ~IsEmptyProduction(grammar, p)
           /\ \E a \in parser.table.actions[c.state][c.terminal] :
                  /\ a.kind = "shift"
                  /\ parser.table.actions[c.state][c.terminal] = {a}

\* C17 as stated: with prefer_shifts = false the constructor raises
\* SRConflicts whenever a state keeps a shift and a reduce on one terminal
\* after priorities and associativity; with prefer_shifts = true it raises no
\* SRConflicts, and RRConflicts whenever a state is left with two reductions
\* on one terminal.
as_stated(raw, opts) ==
    /\ (~opts.prefer_shifts /\ \E c \in raw : c.shift)
           => (pc = "init_error" /\ error.type = "SRConflicts")
    /\ opts.prefer_shifts => error.type # "SRConflicts"
    /\ (opts.prefer_shifts /\ \E c \in raw : ~c.shift)
           => (pc = "init_error" /\ error.type = "RRConflicts")

C17_AsStated ==
    ConstructorReturned =>
        as_stated(raw_conflicts(grammar, parser.options), parser.options)

\* the reduce of production p beside a shift is not resolved to the shift by
\* an option
Unresolved(g, opts, p) ==
    /\ ~opts.prefer_shifts
    /\ ~(opts.prefer_shifts_over_empty /\ IsEmptyProduction(g, p))

\* the reductions a cell is left with by the options
ReductionsLeft(g, opts, c) ==
    IF c.shift THEN {p \in c.productions : Unresolved(g, opts, p)}
    ELSE c.productions

\* the conflicts left by the options: cells with a shift and an unresolved
\* reduce; cells with two reductions
SRRemaining(g, opts, raw) ==
    {[state |-> c.state, terminal |-> c.terminal,
      productions |-> ReductionsLeft(g, opts, c)] :
        c \in {d \in raw : d.shift /\ ReductionsLeft(g, opts, d) # {}}}

RRRemaining(g, opts, raw) ==
    {[state |-> c.state, terminal |-> c.terminal,
      productions |-> ReductionsLeft(g, opts, c)] :
        c \in {d \in raw : Cardinality(ReductionsLeft(g, opts, d)) > 1}}

reported(opts, sr, rr) ==
    /\ sr # {} =>
           /\ pc = "init_error"
           /\ error.type = "SRConflicts"
           /\ error.conflicts = sr
    /\ (sr = {} /\ rr # {}) =>
           /\ pc = "init_error"
           /\ error.type = "RRConflicts"
           /\ error.conflicts = rr
    /\ (sr = {} /\ rr = {}) => pc = "ready"
    /\ opts.prefer_shifts => error.type # "SRConflicts"

conflicts_reported(g, opts, raw) ==
    reported(opts, SRRemaining(g, opts, raw), RRRemaining(g, opts, raw))

\* C17: conflicts are not dropped silently.  A shift/reduce conflict left by
\* priorities and associativity is resolved to the shift when prefer_shifts
\* is on, or when prefer_shifts_over_empty is on and the reduction is of an
\* empty production; the constructor raises SRConflicts, carrying all of
\* them, exactly when other shift/reduce conflicts are left, and else
\* RRConflicts, carrying all of them, exactly when some state is left with
\* two reductions on one terminal.
C17_ConflictsReported ==
    ConstructorReturned =>
        conflicts_reported(grammar, parser.options,
                           raw_conflicts(grammar, parser.options))

\* with prefer_shifts the shift/reduce conflicts of an ambiguous grammar were
\* resolved and RRConflicts was raised for the two reductions left on EOF
C17_Witness ==
    /\ pc = "init_error"
    /\ "options" \in DOMAIN parser
    /\ parser.options.prefer_shifts
    /\ \E c \in raw_conflicts(grammar, parser.options) : c.shift
    /\ error.type = "RRConflicts"
    /\ \E c \in error.conflicts : c.terminal = EOF /\ Cardinality(c.productions) = 2

(***************************************************************************)
(* Properties of the deterministic parse                                   *)
(***************************************************************************)
MaxDepth == 8

ParseReturned == pc \in {"parsed", "parse_error"}

Succeeded == result.parse.kind = "ok"

\* the sequence of terminals seq can be derived from the symbol X, or from
\* the sequence of symbols rhs, by a derivation of depth d at most
RECURSIVE Derives(_, _, _, _)
RECURSIVE DerivesRhs(_, _, _, _)
Derives(P, X, seq, d) ==
    IF IsTerminalRef(X) THEN seq = <<X>>
    ELSE d > 0 /\ \E p \in ProductionsFor(P, X) : DerivesRhs(P, P[p].rhs, seq, d - 1)

DerivesRhs(P, rhs, seq, d) ==
    IF rhs = <<>> THEN seq = <<>>
    ELSE \E k \in 0..Len(seq) :
            /\ DerivesRhs(P, Tail(rhs), SubSeq(seq, k + 1, Len(seq)), d)
            /\ Derives(P, Head(rhs), SubSeq(seq, 1, k), d)

\* the terminals are a sentence of the grammar: derived from its start symbol
Sentence(g, terminals) == Derives(g.productions, g.start_symbol, terminals, MaxDepth)

OnlyLayout(text) == \A i \in 1..Len(text) : CharAt(text, i) \in WS

\* the tokens lie in the input one after the other, each where its text is,
\* with nothing but layout between them, and reach the end of the input
RECURSIVE Tiles(_, _, _)
Tiles(in_str, tokens, from) ==
    IF tokens = <<>> THEN from = Len(in_str)
    ELSE /\ from <= Head(tokens).start
         /\ OnlyLayout(Slice(in_str, from, Head(tokens).start))
         /\ Head(tokens).value
                = Slice(in_str, Head(tokens).start,
                        Head(tokens).start + Len(Head(tokens).value))
         /\ Tiles(in_str, Tail(tokens), Head(tokens).start + Len(Head(tokens).value))

SymbolsOfTokens(tokens) == [i \in 1..Len(tokens) |-> tokens[i].symbol]

\* every terminal of the call is a string of one character: the input has
\* one token per character that is not layout
CharTerminals ==
    \A i \in 1..Len(args.terminals_dict) :
        /\ args.terminals_dict[i].spec[1] = "string"
        /\ Len(args.terminals_dict[i].spec[2]) = 1
        /\ args.terminals_dict[i].spec[2] = args.terminals_dict[i].name

RECURSIVE CharTokens(_)
CharTokens(text) ==
    IF text = "" THEN <<EOF>>
    ELSE IF CharAt(text, 1) \in WS THEN CharTokens(SubSeq(text, 2, Len(text)))
    ELSE <<TRef(CharAt(text, 1))>> \o CharTokens(SubSeq(text, 2, Len(text)))

\* the input of a one-character grammar without conflicts is a sentence
CharSentence ==
    /\ CharTerminals
    /\ \A i \in 1..Len(result.in_str) :
           CharAt(result.in_str, i) \in WS \cup Keys(args.terminals_dict)
    /\ Sentence(grammar, CharTokens(result.in_str))

\* a successful parse consumed the whole input as a sentence of the grammar
ConsumedAll ==
    /\ result.parse.position = Len(result.in_str)
    /\ Tiles(result.in_str, result.parse.tokens, 0)
    /\ Sentence(grammar, SymbolsOfTokens(result.parse.tokens))

\* C18 as stated: a parse succeeds only in accept at the end of the input,
\* and a parse that does not succeed raises ParseError.
C18_AsStated ==
    ParseReturned =>
        /\ Succeeded => ConsumedAll
        /\ CharSentence => Succeeded
        /\ ~Succeeded => result.parse.error.type = "ParseError"

\* C18: a parse of a grammar made by from_struct succeeds only when the
\* shifted tokens, the last of them EOF, cover the whole input but for
\* layout and are a sentence of the grammar, with position = |input|; where
\* the tokens of the input are known without the parser, every sentence is
\* parsed; a parse that does not succeed raises ParseError, or
\* DisambiguationError when the scanner cannot choose between tokens.
C18_ParseConsumesInput ==
    ParseReturned =>
        /\ Succeeded => ConsumedAll
        /\ CharSentence => Succeeded
        /\ ~Succeeded =>
               /\ result.parse.error.type \in {"ParseError", "DisambiguationError"}
               /\ result.parse.error.type = "DisambiguationError"
                      => Cardinality(result.parse.error.candidates) > 1

\* a prefix of the input is a sentence and input that is not layout is left:
\* ParseError was raised
C18_Witness ==
    /\ pc = "parse_error"
    /\ result.parse.error.type = "ParseError"
    /\ result.parse.error.position < Len(result.in_str)
    /\ \E n \in 1..(Len(result.in_str) - 1) :
           /\ CharTerminals
           /\ Sentence(grammar, CharTokens(SubSeq(result.in_str, 1, n)))
           /\ result.parse.error.position >= n

(***************************************************************************)
(* Properties of tree building and of the calls of actions                 *)
(***************************************************************************)
\* what an action sees of the parse: who is called, for which symbol and
\* production, with which positions and layout
ContextOf(call) ==
    [fn |-> call.fn, symbol |-> call.symbol, prod |-> call.prod,
     start_position |-> call.start_position, end_position |-> call.end_position,
     layout_content |-> call.layout_content]

Contexts(calls) == [i \in 1..Len(calls) |-> ContextOf(calls[i])]

\* the nodes of a tree, in any order
RECURSIVE NodesOf(_)
NodesOf(node) ==
    <<node>> \o Flatten([i \in 1..Len(node.children) |-> NodesOf(node.children[i])])

\* one context for every node of the tree whose symbol has an action bound:
\* a node is a shift (prod = 0) or a reduction
ContextsOfNodes(g, sp, nodes) ==
    LET acted == SelectSeq(nodes, LAMBDA n : SemAction(g, sp, n.symbol, n.prod) # "")
    IN  [i \in 1..Len(acted) |->
            [fn |-> SemAction(g, sp, acted[i].symbol, acted[i].prod),
             symbol |-> acted[i].symbol, prod |-> acted[i].prod,
             start_position |-> acted[i].start, end_position |-> acted[i].end,
             layout_content |-> acted[i].layout]]

Count(seq, x) == Cardinality({i \in 1..Len(seq) : seq[i] = x})

SameBag(s, t) ==
    /\ Len(s) = Len(t)
    /\ \A i \in 1..Len(s) : Count(s, s[i]) = Count(t, s[i])

\* the parse of the same input by the same parser with other tree options
ParseWith(build_tree, during) ==
    lr_parse([parser EXCEPT !.options.build_tree = build_tree,
                            !.options.call_actions_during_tree_build = during],
             grammar, specials, result.in_str)

once_per_node(calls, tree) ==
    SameBag(Contexts(calls), ContextsOfNodes(grammar, specials, NodesOf(tree.result)))

same_contexts(calls, plain) == Contexts(calls) = Contexts(plain.calls)

\* C20: a parse with build_tree and without call_actions_during_tree_build
\* calls no action; with call_actions_during_tree_build a successful parse
\* calls the action of a symbol once for every shift and reduction of the
\* symbol; call_actions(tree) calls the actions in the order, and with the
\* positions and layout, of a parse of the input without build_tree.
C20_ActionCalls ==
    /\ (pc \in {"parsed", "parse_error", "called"}
            /\ parser.options.build_tree
            /\ ~parser.options.call_actions_during_tree_build)
           => result.parse.calls = <<>>
    /\ (pc \in {"parsed", "called"} /\ parser.options.call_actions_during_tree_build)
           => once_per_node(result.parse.calls, ParseWith(TRUE, FALSE))
    /\ pc = "called" => same_contexts(result.calls, ParseWith(FALSE, FALSE))

\* call_actions was called on the tree of a parse that called no action and
\* called actions of tokens and of reductions, one of a token after layout
C20_Witness ==
    /\ pc = "called"
    /\ ~parser.options.call_actions_during_tree_build
    /\ result.parse.calls = <<>>
    /\ \E i, j \in 1..Len(result.calls) :
           /\ result.calls[i].prod = 0
           /\ result.calls[i].layout_content # ""
           /\ result.calls[j].prod > 0
           /\ result.calls[j].start_position < result.calls[j].end_position

(***************************************************************************)
(* Properties of the GLR parse                                             *)
(***************************************************************************)
RECURSIVE SumSeq(_)
SumSeq(ns) == IF ns = <<>> THEN 0 ELSE Head(ns) + SumSeq(Tail(ns))

\* the nonterminals that derive the empty sequence
DeriveEmpty(P) == {X \in NonterminalsOf(P) : Derives(P, X, <<>>, MaxDepth)}

\* the least number of terminals a sequence of symbols derives, when every
\* symbol outside N derives one at least
Need(N, rhs) == Cardinality({i \in 1..Len(rhs) : rhs[i] \notin N})

\* the number of derivation trees, of depth d at most, of the sequence of
\* terminals seq from the symbol X, or from the sequence of symbols rhs; N
\* are the nonterminals that derive the empty sequence
RECURSIVE CountTrees(_, _, _, _, _)
RECURSIVE CountTreesRhs(_, _, _, _, _)
CountTrees(P, N, X, seq, d) ==
    IF IsTerminalRef(X) THEN (IF seq = <<X>> THEN 1 ELSE 0)
    ELSE IF d = 0 THEN 0
    ELSE SumSeq([p \in 1..Len(P) |->
                    IF P[p].symbol = X THEN CountTreesRhs(P, N, P[p].rhs, seq, d - 1)
                    ELSE 0])

CountTreesRhs(P, N, rhs, seq, d) ==
    IF rhs = <<>> THEN (IF seq = <<>> THEN 1 ELSE 0)
    ELSE SumSeq([i \in 1..(Len(seq) + 1) |->
                    LET times(n) ==
                            IF n = 0 THEN 0
                            ELSE n * CountTrees(P, N, Head(rhs), SubSeq(seq, 1, i - 1), d)
                    IN  IF \/ (i = 1 /\ Head(rhs) \notin N)
                           \/ Len(seq) - i + 1 < Need(N, Tail(rhs))
                        THEN 0
                        ELSE times(CountTreesRhs(P, N, Tail(rhs),
                                                 SubSeq(seq, i, Len(seq)), d))])

\* the derivation trees of the whole input from the start symbol
DerivationTrees ==
    CountTrees(grammar.productions, DeriveEmpty(grammar.productions),
               grammar.start_symbol, CharTokens(result.in_str), MaxDepth)

GLRReturned == pc \in {"parsed", "parse_error"} /\ parser.kind = "GLRParser"

PositionsOf(productions, lhs) ==
    {i \in 1..Len(productions) : productions[i].symbol = lhs}

\* C21: after construction prod_id is the index of the production in
\* grammar.productions, so the ids are unique and dense 0..n-1 in insertion
\* order and no production is listed twice; prod_symbol_id is the number of
\* earlier productions with the same left-hand-side symbol.
C21_ProductionNumbering ==
    pc = "built" =>
        LET P == grammar.productions
        IN  /\ {P[i].prod_id : i \in 1..Len(P)} = 0..(Len(P) - 1)
            /\ \A i, j \in 1..Len(P) : i < j => P[i].prod_id < P[j].prod_id
            /\ \A i \in 1..Len(P) :
                  P[i].prod_symbol_id =
                      Cardinality({j \in PositionsOf(P, P[i].symbol) : j < i})
            /\ \A i \in 1..Len(P) :
                  {P[j].prod_symbol_id : j \in PositionsOf(P, P[i].symbol)}
                      = 0..(Cardinality(PositionsOf(P, P[i].symbol)) - 1)
            \* every declared alternative is listed once
            /\ \A e \in SeqToSet(args.productions_dict) :
                  Cardinality(PositionsOf(P, NRef(e.name))) = Len(e.alts)

\* a grammar whose nonterminal has a second alternative, after the
\* productions of two other symbols
C21_Witness ==
    /\ pc = "built"
    /\ \E i \in 1..Len(grammar.productions) :
          /\ grammar.productions[i].prod_symbol_id = 1
          /\ grammar.productions[i].prod_id >= 3

(***************************************************************************)
(* Reading a ProductionRHS                                                 *)
(***************************************************************************)
MaxRhs == 3

RhsSymbols == {TRef("a"), NRef("S"), EMPTY}

\* a right-hand side and an index into it
RhsCalls == [rhs : SeqsUpTo(RhsSymbols, MaxRhs), idx : (-MaxRhs)..(MaxRhs + 1)]

InitRHS == InitWith(RhsCalls)

\* result = ProductionRHS(rhs)[idx]
GetItem ==
    /\ pc = "call"
    /\ result' = ProductionRHS_getitem(args.rhs, args.idx)
    /\ pc' = "item"
    /\ UNCHANGED <<args, grammar, retname, error, specials, overrides, nresolve,
                   resolved, parser>>

\* result = len(ProductionRHS(rhs))
Length ==
    /\ pc = "call"
    /\ result' = ProductionRHS_len(args.rhs)
    /\ pc' = "len"
    /\ UNCHANGED <<args, grammar, retname, error, specials, overrides, nresolve,
                   resolved, parser>>

NextRHS == GetItem \/ Length

SpecRHS == InitRHS /\ [][NextRHS]_vars

(***************************************************************************)
(* Properties of ProductionRHS                                             *)
(***************************************************************************)
\* the symbols of a right-hand side that are not EMPTY, in order
RECURSIVE NonEmptySymbols(_)
NonEmptySymbols(raw) ==
    IF raw = <<>> THEN <<>>
    ELSE IF Head(raw) = EMPTY THEN NonEmptySymbols(Tail(raw))
    ELSE <<Head(raw)>> \o NonEmptySymbols(Tail(raw))

\* C30: for every right-hand side r, with EMPTY at any places, len(r) is
\* the number of symbols that are not EMPTY, r[i] for 0 <= i < len(r) is the
\* (i+1)-th symbol that is not EMPTY, and r[i] for i >= len(r) is None.
C30_SkipsEmpty ==
    /\ pc = "len" => result = Len(NonEmptySymbols(args.rhs))
    /\ pc = "item" /\ args.idx >= 0 =>
          result = IF args.idx < Len(NonEmptySymbols(args.rhs))
                   THEN NonEmptySymbols(args.rhs)[args.idx + 1]
                   ELSE NoRef

(***************************************************************************)
(* Properties of the symbol tables of a grammar                            *)
(***************************************************************************)
\* the symbol s of a production is the object that grammar.nonterminals or
\* grammar.terminals holds under its name
RegisteredAs(g, s) ==
    IF IsTerminalRef(s)
    THEN /\ s.n \in SeqToSet(g.t_keys)
         /\ (s.k = "G") = (s.n \in SeqToSet(SpecialNames))
    ELSE /\ s.n \in SeqToSet(g.nt_keys)
         /\ s.n \in DOMAIN g.nt_ref
         /\ g.nt_ref[s.n] = s

\* C26: in every built grammar each symbol that occurs as the left-hand
\* side or in the right-hand side of a production is exactly the object
\* registered under its name in grammar.nonterminals or grammar.terminals:
\* no production refers to an unregistered symbol or to a second symbol of
\* the same name.
C26_SymbolsRegistered ==
    pc = "built" =>
        \A i \in 1..Len(grammar.productions) :
            \A s \in {grammar.productions[i].symbol}
                        \cup SeqToSet(grammar.productions[i].rhs) :
                RegisteredAs(grammar, s)

(***************************************************************************)
(* Two grammars in one process: `grammar` is the first one, args.other the *)
(* call that constructs the second, which is kept in `result`.  The        *)
(* module-level symbols are the same objects for both.                     *)
(***************************************************************************)
\* the first call, and the second call with every choice of `recognizers`
CallsI ==
    {[productions_dict |-> <<[name |-> "S", alts |-> <<<<"a">>>>]>>,
      terminals_dict |-> <<[name |-> "a", spec |-> <<"string", "a">>]>>,
      start |-> "S", recognizers |-> rs1,
      other |-> [productions_dict |-> <<[name |-> "S", alts |-> <<<<"a">>>>]>>,
                 terminals_dict |-> <<[name |-> "a", spec |-> a]>>,
                 start |-> "S", recognizers |-> rs2]] :
        rs1 \in {<<>>, <<"EOF">>},
        a \in {<<"string", "a">>, <<"external", "">>},
        rs2 \in DistinctSeqs(RecognizerKeys, MaxRecs)}

InitI == InitWith(CallsI)

\* other, name = Grammar.from_struct(**args.other), after the first grammar
FromStructOther ==
    /\ pc = "built"
    /\ \E r \in {from_struct(args.other, specials)} :
           /\ pc' = IF IsError(r.err) THEN "other_raised" ELSE "other_built"
           /\ result' = [g |-> r.g, err |-> r.err]
           /\ specials' = r.sp
    /\ UNCHANGED <<args, grammar, retname, error, overrides, nresolve, resolved, parser>>

\* other._resolve_actions(action_overrides, fail_on_no_resolve), as a
\* parser constructed on the second grammar calls it
ResolveActionsOther ==
    /\ pc = "other_built"
    /\ \E action_overrides \in OverrideMaps, fail_on_no_resolve \in BOOLEAN :
          \E r \in {resolve_actions(result.g, specials, action_overrides,
                                    fail_on_no_resolve)} :
              /\ pc' = IF IsError(r.err) THEN "other_init_error" ELSE "other_resolved"
              /\ result' = [g |-> r.g, err |-> r.err]
              /\ specials' = r.sp
              /\ overrides' = action_overrides
    /\ UNCHANGED <<args, grammar, retname, error, nresolve, resolved, parser>>

NextI == FromStruct \/ FromStructOther \/ ResolveActionsOther

SpecI == InitI /\ [][NextI]_vars

(***************************************************************************)
(* Properties of two grammars in one process                               *)
(***************************************************************************)
\* a step leaves the recognizers and the actions of EMPTY, EOF and STOP
ReservedUntouched ==
    \A n \in DOMAIN specials :
        /\ specials'[n].recognizer = specials[n].recognizer
        /\ specials'[n].action = specials[n].action

\* C27: grammars are isolated: constructing a grammar, or resolving actions
\* or recognizer overrides for it, never changes the recognizer or action
\* of a symbol of a different, previously constructed grammar, the reserved
\* EMPTY, EOF and STOP as seen through that grammar included.
C27_GrammarsIsolated ==
    [][(pc = "built" \/ pc = "other_built")
           => (grammar' = grammar /\ ReservedUntouched)]_vars

(***************************************************************************)
(* Properties of repeated action resolution                                *)
(***************************************************************************)
\* the actions of all the symbols of grammar g, by kind and name
ActionsOf(g, sp) ==
    [nts |-> [n \in DOMAIN g.nts |-> g.nts[n].action],
     terms |-> [n \in DOMAIN g.terms |-> g.terms[n].action],
     reserved |-> [n \in DOMAIN sp |-> sp[n].action]]

\* the actions after one _resolve_actions(action_overrides) on the grammar
\* that the from_struct call makes in a fresh process
FreshlyResolved(call, action_overrides) ==
    LET resolve(b) == resolve_actions(b.g, b.sp, action_overrides, FALSE)
        actions(r) == ActionsOf(r.g, r.sp)
    IN  actions(resolve(from_struct(call, SpecialsInit)))

\* C28: action resolution leaves no residue: after any sequence of
\* successful _resolve_actions calls on a grammar, the action of every
\* symbol is what a single call with the overrides of the last call gives
\* on a freshly constructed grammar.
C28_NoResidue ==
    pc = "resolved" =>
        ActionsOf(grammar, specials) = FreshlyResolved(args, overrides)

\* a second call has succeeded, with overrides that do not name S
C28_Witness ==
    /\ pc = "resolved"
    /\ nresolve = 2
    /\ "S" \notin DOMAIN overrides
    /\ "S" \in DOMAIN grammar.nts
    /\ grammar.nts["S"].action = grammar.nts["S"].grammar_action

(***************************************************************************)
(* PGFile.resolve_references: the references in the right-hand sides of a  *)
(* file's productions are replaced by symbols; a reference with a          *)
(* multiplicity is replaced by a nonterminal that is made on demand.       *)
(*   file f = [symbols_by_name, imports, productions, created]             *)
(*   created: the NonTerminal objects made so far; the symbol              *)
(*   [k |-> "N", n |-> name, id |-> i] is the object created[i]            *)
(***************************************************************************)
MULT_ONE == "1"

MULT_OPTIONAL == "0..1"

MULT_ONE_OR_MORE == "1..*"

MULT_ZERO_OR_MORE == "0..*"

\* Reference with its multiplicity and the name of its separator (NoneName
\* for none)
Reference(name, multiplicity, separator) ==
    [k |-> "Ref", n |-> name, mult |-> multiplicity, sep |-> separator]

make_multiplicity_name(symbol_name, multiplicity, separator_name) ==
    IF multiplicity = MULT_ONE THEN symbol_name
    ELSE symbol_name \o "_"
            \o (IF multiplicity = MULT_ZERO_OR_MORE THEN "0"
                ELSE IF multiplicity = MULT_ONE_OR_MORE THEN "1"
                ELSE "opt")
            \o (IF separator_name # NoneName THEN "_" \o separator_name ELSE "")

\* Production(symbol, rhs, nops=nops): self.rhs = rhs if rhs else ProductionRHS()
ProductionOf(symbol, rhs, nops) ==
    [symbol |-> symbol,
     rhs |-> IF ProductionRHS_len(rhs) = 0 THEN <<>> ELSE rhs,
     nops |-> nops]

\* NonTerminal(symbol_name, productions, ...) as the next object of the file
NewSymbol(f, symbol_name) == [k |-> "N", n |-> symbol_name, id |-> Len(f.created) + 1]

\* the object is kept, and self.register_symbol(symbol)
register_symbol(f, symbol, action_name, grammar_action, productions) ==
    [f EXCEPT !.created = Append(@, [name |-> symbol.n, action_name |-> action_name,
                                     grammar_action |-> grammar_action,
                                     productions |-> productions]),
              !.symbols_by_name = (symbol.n :> symbol) @@ @]

\* the productions of the one_or_more symbol
one_or_more_productions(symbol, base_symbol, separator) ==
    <<IF separator # NoRef
      THEN ProductionOf(symbol, <<symbol, separator, base_symbol>>, FALSE)
      ELSE ProductionOf(symbol, <<symbol, base_symbol>>, FALSE),
      ProductionOf(symbol, <<base_symbol>>, FALSE)>>

\* variant of zero_or_more_productions with nops on the empty alternative
zero_or_more_productions_empty_nops(symbol, symbol_one) ==
    <<ProductionOf(symbol, <<symbol_one>>, FALSE),
      ProductionOf(symbol, <<EMPTY>>, TRUE)>>

\* the productions of the zero_or_more symbol
zero_or_more_productions(symbol, symbol_one) ==
    <<ProductionOf(symbol, <<symbol_one>>, TRUE),
      ProductionOf(symbol, <<EMPTY>>, FALSE)>>

\* the productions of the optional symbol
optional_productions(symbol, base_symbol) ==
    <<ProductionOf(symbol, <<base_symbol>>, FALSE),
      ProductionOf(symbol, <<EMPTY>>, FALSE)>>

\* PGFile.make_multiplicity_symbol: [err, sym, f]
make_multiplicity_symbol(f, symbol_ref, base_symbol, separator) ==
    LET mult == symbol_ref.mult
        sep_name == IF separator # NoRef THEN separator.n ELSE NoneName
        \* the one_or_more symbol, made unless a symbol has its name
        one(symbol_name, found) ==
            IF found # NoRef THEN [sym |-> found, f |-> f]
            ELSE [sym |-> NewSymbol(f, symbol_name),
                  f |-> register_symbol(f, NewSymbol(f, symbol_name),
                            IF separator # NoRef THEN "collect_sep" ELSE "collect",
                            FALSE,
                            one_or_more_productions(NewSymbol(f, symbol_name),
                                                    base_symbol, separator))]
        \* the zero_or_more symbol on top of it
        zero(o, symbol_name) ==
            [sym |-> NewSymbol(o.f, symbol_name),
             f |-> register_symbol(o.f, NewSymbol(o.f, symbol_name), NoneName, TRUE,
                       zero_or_more_productions(NewSymbol(o.f, symbol_name), o.sym))]
        ok(r) == [err |-> NoError, sym |-> r.sym, f |-> r.f]
        one_name == make_multiplicity_name(symbol_ref.n, MULT_ONE_OR_MORE, sep_name)
    IN  IF mult \in {MULT_ONE_OR_MORE, MULT_ZERO_OR_MORE}
        THEN IF mult = MULT_ZERO_OR_MORE
             THEN ok(zero(one(one_name, resolve_symbol_by_name(f, one_name).ref),
                          make_multiplicity_name(symbol_ref.n, mult, sep_name)))
             ELSE ok(one(one_name, resolve_symbol_by_name(f, one_name).ref))
        ELSE \* MULT_OPTIONAL
             IF separator # NoRef
             THEN [err |-> GrammarError("Repetition modifier not allowed for optional (?) for symbol",
                                        <<symbol_ref.n>>),
                   sym |-> NoRef, f |-> f]
             ELSE ok([sym |-> NewSymbol(f, make_multiplicity_name(symbol_ref.n, mult, NoneName)),
                      f |-> register_symbol(f,
                                NewSymbol(f, make_multiplicity_name(symbol_ref.n, mult, NoneName)),
                                "optional", FALSE,
                                optional_productions(
                                    NewSymbol(f, make_multiplicity_name(symbol_ref.n, mult,
                                                                        NoneName)),
                                    base_symbol))])

\* PGFile.resolve_ref: [err, sym, f]; sym is the reference itself when the
\* first pass does not find the symbol
resolve_ref(f, symbol_ref, first_pass) ==
    LET unknown(name) == [err |-> GrammarError("Unknown symbol", <<name>>),
                          sym |-> NoRef, f |-> f]
        fail(e) == [err |-> e, sym |-> NoRef, f |-> f]
        \* symbol_ref.separator = self.resolve_ref(symbol_ref.separator)
        sep == IF symbol_ref.sep # NoneName
               THEN resolve_symbol_by_name(f, symbol_ref.sep)
               ELSE [err |-> NoError, ref |-> NoRef]
        base == resolve_symbol_by_name(f, symbol_ref.n)
        sep_name == IF sep.ref # NoRef THEN sep.ref.n ELSE NoneName
        sugared == resolve_symbol_by_name(
                       f, make_multiplicity_name(symbol_ref.n, symbol_ref.mult, sep_name))
    IN  IF IsError(sep.err) THEN fail(sep.err)
        ELSE IF symbol_ref.sep # NoneName /\ sep.ref = NoRef THEN unknown(symbol_ref.sep)
        ELSE IF IsError(base.err) THEN fail(base.err)
        ELSE IF base.ref = NoRef
        THEN IF first_pass THEN [err |-> NoError, sym |-> symbol_ref, f |-> f]
             ELSE unknown(symbol_ref.n)
        ELSE IF symbol_ref.mult = MULT_ONE
        THEN [err |-> NoError, sym |-> base.ref, f |-> f]
        ELSE IF sugared.ref # NoRef
        THEN [err |-> NoError, sym |-> sugared.ref, f |-> f]
        ELSE make_multiplicity_symbol(f, symbol_ref, base.ref, sep.ref)

\* the positions <<production, index>> of the right-hand sides, in order
RhsPositions(productions) ==
    Flatten([p \in 1..Len(productions) |->
                [i \in 1..Len(productions[p].rhs) |-> <<p, i>>]])

\* one pass of resolve_references over the positions: [err, f]
RECURSIVE resolve_pass(_, _, _)
resolve_pass(f, positions, pazz) ==
    IF positions = <<>> THEN [err |-> NoError, f |-> f]
    ELSE LET p == Head(positions)[1]
             idx == Head(positions)[2]
             ref == f.productions[p].rhs[idx]
             store(r) ==
                 IF IsError(r.err) THEN [err |-> r.err, f |-> f]
                 ELSE resolve_pass([r.f EXCEPT !.productions[p].rhs[idx] = r.sym],
                                   Tail(positions), pazz)
         IN  IF ref.k = "Ref" THEN store(resolve_ref(f, ref, pazz))
             ELSE resolve_pass(f, Tail(positions), pazz)

\* PGFile.resolve_references: for pazz in [True, False]
resolve_references(f) ==
    LET second(done) ==
            IF IsError(done.err) THEN done
            ELSE resolve_pass(done.f, RhsPositions(f.productions), FALSE)
    IN  second(resolve_pass(f, RhsPositions(f.productions), TRUE))

(***************************************************************************)
(* Files whose references are resolved: the rule S with up to MaxRefs      *)
(* references, the terminals a and c, optionally a rule named a_1, and the *)
(* import m with the rule B and the terminal b                             *)
(***************************************************************************)
MaxRefs == 2

Multiplicities == {MULT_ONE, MULT_OPTIONAL, MULT_ONE_OR_MORE, MULT_ZERO_OR_MORE}

\* references to a terminal, to a rule of the import, to the name of a
\* one_or_more symbol and to an unknown name
References ==
    {Reference(n, m, sep) : n \in {"a", "m.B", "a_1", "zz"}, m \in Multiplicities,
                            sep \in {NoneName, "c"}}

\* a symbol of the imported file
Imported(k, name, module) == [k |-> k, n |-> name, imported_with |-> module]

ImportedFile ==
    [symbols_by_name |-> [B |-> Imported("N", "B", "m"), b |-> Imported("T", "b", "m")],
     imports |-> <<>>]

\* the file when collect_and_unify_symbols has returned
PGFileOf(rhs, declared) ==
    [symbols_by_name |->
        [n \in {"S", "a", "c", "EMPTY", "EOF", "STOP"} \cup declared |->
            IF n \in {"a", "c"} THEN TRef(n)
            ELSE IF n \in RESERVED_SYMBOL_NAMES THEN GRef(n)
            ELSE NRef(n)],
     imports |-> [m |-> ImportedFile],
     productions |->
        <<ProductionOf(NRef("S"), rhs, FALSE)>>
            \o [i \in 1..Cardinality(declared) |->
                   ProductionOf(NRef("a_1"), <<Reference("c", MULT_ONE, NoneName)>>, FALSE)],
     created |-> <<>>]

FilesF ==
    {PGFileOf(rhs, declared) : rhs \in SeqsUpTo(References, MaxRefs),
                               declared \in {{}, {"a_1"}}}

InitF == InitWith(FilesF)

\* self.resolve_references() of PGFile.__init__
ResolveReferences ==
    /\ pc = "call"
    /\ \E r \in {resolve_references(args)} :
           /\ pc' = IF IsError(r.err) THEN "file_raised" ELSE "file_resolved"
           /\ error' = r.err
           /\ result' = r.f
    /\ UNCHANGED <<args, grammar, retname, specials, overrides, nresolve, resolved, parser>>

NextF == ResolveReferences

SpecF == InitF /\ [][NextF]_vars

(***************************************************************************)
(* Properties of the resolution of references                              *)
(***************************************************************************)
\* the positions of the references with a multiplicity, as the file had
\* them before the resolution
SugaredPositions ==
    {q \in SeqToSet(RhsPositions(args.productions)) :
        /\ args.productions[q[1]].rhs[q[2]].k = "Ref"
        /\ args.productions[q[1]].rhs[q[2]].mult # MULT_ONE}

RefAt(q) == args.productions[q[1]].rhs[q[2]]

\* what the reference at position q has been replaced by
ResolvedAt(q) == result.productions[q[1]].rhs[q[2]]

\* the symbol is a nonterminal made by the resolution
Synthesized(sym) == sym.k = "N" /\ "id" \in DOMAIN sym

ObjectOf(sym) == result.created[sym.id]

\* the symbol that a name denotes in the resolved file (of the file, made
\* by the resolution, or of an import)
Declared(name) == resolve_symbol_by_name(result, name).ref

\* the alternatives of a symbol, each as the sequence of its symbols that
\* are not EMPTY
AlternativesOf(sym) ==
    [i \in 1..Len(ObjectOf(sym).productions) |->
        NonEmptySymbols(ObjectOf(sym).productions[i].rhs)]

SeparatorName(ref) ==
    IF ref.sep = NoneName THEN NoneName ELSE Declared(ref.sep).n

\* sym is the one_or_more symbol of the reference: X_1 with [X_1, X] and [X]
\* and action collect, or X_1_S with [X_1_S, S, X] and [X] and collect_sep
IsOneOrMoreOf(sym, ref) ==
    /\ Synthesized(sym)
    /\ sym.n = ref.n \o "_1"
                  \o (IF ref.sep = NoneName THEN "" ELSE "_" \o SeparatorName(ref))
    /\ AlternativesOf(sym) =
          IF ref.sep = NoneName
          THEN << <<sym, Declared(ref.n)>>, <<Declared(ref.n)>> >>
          ELSE << <<sym, Declared(ref.sep), Declared(ref.n)>>, <<Declared(ref.n)>> >>
    /\ ObjectOf(sym).action_name =
          IF ref.sep = NoneName THEN "collect" ELSE "collect_sep"

\* sym is the zero_or_more symbol of the reference: X_0 (X_0_S) with [X_1]
\* ([X_1_S]) and the empty alternative
IsZeroOrMoreOf(sym, ref) ==
    /\ Synthesized(sym)
    /\ sym.n = ref.n \o "_0"
                  \o (IF ref.sep = NoneName THEN "" ELSE "_" \o SeparatorName(ref))
    /\ Len(AlternativesOf(sym)) = 2
    /\ Len(AlternativesOf(sym)[1]) = 1
    /\ IsOneOrMoreOf(AlternativesOf(sym)[1][1], ref)
    /\ AlternativesOf(sym)[2] = <<>>

\* sym is the optional symbol of the reference: X_opt with [X] and the
\* empty alternative, action optional
IsOptionalOf(sym, ref) ==
    /\ Synthesized(sym)
    /\ sym.n = ref.n \o "_opt"
    /\ AlternativesOf(sym) = << <<Declared(ref.n)>>, <<>> >>
    /\ ObjectOf(sym).action_name = "optional"

\* C22: resolving a reference to X with a multiplicity yields a synthesized
\* nonterminal with exactly these alternatives: for `?` X_opt with [X] and
\* [EMPTY] (action optional); for `+` X_1 with [X_1, X] and [X] (collect),
\* with a separator S X_1_S with [X_1_S, S, X] and [X] (collect_sep); for `*`
\* the _1 symbol and X_0 (X_0_S) with [X_1] ([X_1_S]) and [EMPTY]; a
\* separator combined with `?` raises GrammarError.
C22_Desugaring ==
    /\ pc = "file_resolved" =>
          \A q \in SugaredPositions :
              IF RefAt(q).mult = MULT_OPTIONAL THEN IsOptionalOf(ResolvedAt(q), RefAt(q))
              ELSE IF RefAt(q).mult = MULT_ONE_OR_MORE
              THEN IsOneOrMoreOf(ResolvedAt(q), RefAt(q))
              ELSE IsZeroOrMoreOf(ResolvedAt(q), RefAt(q))
    /\ (pc # "call" /\ \E q \in SugaredPositions :
                          RefAt(q).mult = MULT_OPTIONAL /\ RefAt(q).sep # NoneName)
          => (pc = "file_raised" /\ error.type = "GrammarError")

\* the zero_or_more symbols that the resolution made
ZeroOrMoreSymbols ==
    {ResolvedAt(q) : q \in {x \in SugaredPositions :
                               /\ RefAt(x).mult = MULT_ZERO_OR_MORE
                               /\ Synthesized(ResolvedAt(x))}}

\* C23 as stated: in the desugaring of a zero_or_more reference
\* (X_0 -> X_1 | EMPTY) the empty alternative is the production marked
\* nops.
C23_AsStated ==
    pc = "file_resolved" =>
        \A sym \in ZeroOrMoreSymbols :
            \A i \in 1..Len(ObjectOf(sym).productions) :
                ObjectOf(sym).productions[i].nops = (AlternativesOf(sym)[i] = <<>>)

\* C23: in the desugaring of a zero_or_more reference (X_0 -> X_1 | EMPTY)
\* the alternative X_1 is the production marked nops; the empty alternative
\* is not marked.
C23_NopsOnOneOrMore ==
    pc = "file_resolved" =>
        \A sym \in ZeroOrMoreSymbols :
            /\ Len(ObjectOf(sym).productions) = 2
            /\ \A i \in 1..2 :
                  ObjectOf(sym).productions[i].nops = (AlternativesOf(sym)[i] # <<>>)
            /\ AlternativesOf(sym)[2] = <<>>

\* a file with a zero_or_more reference has been resolved
C23_Witness ==
    /\ pc = "file_resolved"
    /\ ZeroOrMoreSymbols # {}

ReductionsMade == result.parse.reduces

\* C24: every reduction by a production p made during a parse pops as many
\* frames as the right-hand side of p has symbols that are not EMPTY (none
\* for an empty production), leaves at least the bottom frame on the stack,
\* and pushes the state the table's GOTO gives for the state left on top
\* and the left-hand side of p: the GOTO entry exists and the stack never
\* underflows.
C24_ReduceLeavesGoto ==
    pc \in {"parsed", "parse_error", "called"} =>
        /\ \A i \in 1..Len(ReductionsMade) :
              LET r == ReductionsMade[i]
              IN  /\ r.popped = Len(NonEmptySymbols(grammar.productions[r.prod].rhs))
                  /\ r.popped < r.depth
                  /\ r.goto # NoState
                  /\ r.goto \in parser.table.states
        /\ result.parse.kind = "error" =>
              result.parse.error.type \notin {"Underflow", "NoGoto"}

\* a parse that returned after it reduced by an empty production on the
\* stack that holds the bottom frame only, and by a production of two symbols
C24_Witness ==
    /\ pc = "parsed"
    /\ \E i \in 1..Len(ReductionsMade) :
          /\ ReductionsMade[i].popped = 0
          /\ ReductionsMade[i].depth = 1
    /\ \E i \in 1..Len(ReductionsMade) : ReductionsMade[i].popped = 2

====
